---------------------------- MODULE Spec2Model ----------------------------
(***************************************************************************)
(* Tide-Watcher: settlement calendar, three-level timing funnel, market   *)
(* guard, timing pipeline, rate limiter, memory cache and the retrying    *)
(* upstream request, modelled from backend/app.                           *)
(*                                                                         *)
(* Dates are proleptic Gregorian ordinals (datetime.date.toordinal()).     *)
(* Percentages are integers in hundredths of a percent (-3.0% = -300).     *)
(* Time (time.monotonic) is an integer number of seconds.                  *)
(***************************************************************************)
EXTENDS Integers, Sequences, FiniteSets, TLC

VARIABLES
    \* ---- calendar / timing funnel ----
    today,        \* the date handed to evaluate (an ordinal)
    holidays,     \* weekdays chinese_calendar reports as not a workday
    call,         \* the last call of a calendar/timing function and its result
    \* ---- market guard ----
    g_signal,     \* the TimingSignal object handed to confirm
    g_snap,       \* the MarketSnapshot handed to confirm
    g_out,        \* what confirm returned
    \* ---- timing pipeline (bridge.run_timing_pipeline, /timing/today) ----
    p_pc,         \* position of the pipeline
    p_entry,      \* which caller runs: "pipeline" or "route"
    p_signal,     \* the signal evaluate returned
    p_data,       \* payloads fetched so far: quotes, zt, dt, zb
    p_snap,       \* the MarketSnapshot built
    p_final,      \* the signal the pipeline returned
    p_raised,     \* TRUE when an exception left the pipeline
    \* ---- clock shared by limiter and cache ----
    now,          \* time.monotonic()
    \* ---- RateLimiter ----
    rl_max,       \* _max_requests
    rl_window,    \* _window
    timestamps,   \* _timestamps (deque, oldest first)
    rl_lock,      \* the set holding the holder of _lock
    rl_pc,        \* position of each caller of acquire
    rl_wake,      \* per caller: the time its asyncio.sleep ends
    completions,  \* history: the times at which acquire() calls completed
    \* ---- MemoryCache ----
    store,        \* _store: key -> entry
    c_ttl,        \* the ttl the callers pass
    c_key,        \* per call: its key
    c_pc,         \* position of each get_or_fetch call
    c_val,        \* per call: the value it holds (fetched or cached)
    c_expect,     \* history, per call: it started while a returned call's value was stored less than ttl ago
    stored_at,    \* history, per key: <<t>> when a get_or_fetch that returned stored its value at t, << >> at first and after invalidate/clear
    fetches,      \* history, per key: number of fetcher invocations
    \* ---- ZhituSource._request under tenacity.retry ----
    r_pc,         \* position of the logical request
    r_realall,    \* use_realall_limiter
    r_attempts,   \* transport attempts made (tenacity's attempt_number)
    r_wait,       \* the backoff sleep in progress, in seconds
    r_outcomes,   \* history: the outcome of each attempt
    r_trace,      \* history: limiter acquisitions and HTTP requests, in order
    r_result,     \* how the logical request ended
    \* ---- a getter of ZhituSource (cache, limiters, retrying request) ----
    s_pc,         \* position of the getter call
    s_getter,     \* which getter is called
    s_valid,      \* whether its pool_type / info_type / report_type / indicator argument is a known one
    s_code,       \* its code argument (for the getters that take one)
    s_cached,     \* whether the cache holds an unexpired value that is not None under its key
    s_attempts,   \* transport attempts made by its _request
    s_trace,      \* history: cache, limiter and HTTP events of the call, in order
    s_result,     \* how the getter call ended
    \* ---- SingleCallLimiter ----
    sc_cooldown,  \* _cooldown
    sc_last_call, \* _last_call
    sc_lock,      \* the set holding the holder of _lock
    sc_pc,        \* position of each caller of acquire
    sc_wake,      \* per caller: the time its asyncio.sleep ends
    sc_completions,\* history: the times at which acquire() calls completed
    \* ---- finance_risk.analyze_financials ----
    a_data,       \* the rows handed to analyze_financials
    a_code,       \* the stock code handed to it
    a_out,        \* what it returned
    \* ---- finance_risk.scan_all_stocks / deep_scan_flagged ----
    fs_stocks,    \* the stocks table: per stock its code and what upstream answers for it
    fs_batch_size, \* scan_all_stocks(batch_size)
    fs_table,     \* the financial_risk table (row id = position)
    fs_pc,        \* position of the scan
    fs_i,         \* the loop variable i: start of the current batch
    fs_rows,      \* deep_scan_flagged: the rows read from financial_risk at the start
    fs_task,      \* per index of the list being scanned: the state of its task
    fs_flagged,   \* scan_all_stocks: flagged
    fs_count,     \* the counters: scanned, errors / updated, extreme_count, errors
    fs_stats,     \* what the scan returned
    fs_history,   \* history: delays taken and table transactions committed by the running scan
    \* ---- ZhituSource._request callers going through the RateLimiter ----
    q_pc,         \* position of each caller of _request
    q_realall,    \* use_realall_limiter of the calls
    q_wake,       \* per caller: the time its retry backoff ends
    q_trace,      \* history, per caller: its limiter acquisitions and HTTP requests, in order
    q_sent        \* history: the times at which HTTP requests were sent

timingVars   == <<today, holidays, call>>
guardVars    == <<g_signal, g_snap, g_out>>
pipeVars     == <<p_pc, p_entry, p_signal, p_data, p_snap, p_final, p_raised>>
limiterVars  == <<rl_max, rl_window, timestamps, rl_lock, rl_pc, rl_wake, completions>>
cacheVars    == <<store, c_ttl, c_key, c_pc, c_val, c_expect, stored_at, fetches>>
requestVars  == <<r_pc, r_realall, r_attempts, r_wait, r_outcomes, r_trace, r_result>>
sourceVars   == <<s_pc, s_getter, s_valid, s_code, s_cached, s_attempts, s_trace, s_result>>
singleVars   == <<sc_cooldown, sc_last_call, sc_lock, sc_pc, sc_wake, sc_completions>>
analyzeVars  == <<a_data, a_code, a_out>>
scanVars     == <<fs_stocks, fs_batch_size, fs_table, fs_pc, fs_i, fs_rows, fs_task, fs_flagged, fs_count, fs_stats, fs_history>>
retryVars    == <<q_pc, q_realall, q_wake, q_trace, q_sent>>
vars == <<timingVars, guardVars, pipeVars, now, limiterVars, cacheVars, requestVars,
          sourceVars,
          singleVars,
          analyzeVars,
          scanVars,
          retryVars>>

\* what a step of one component leaves alone
TimingOnly  == UNCHANGED <<guardVars, pipeVars, now, limiterVars, cacheVars, requestVars, sourceVars, singleVars, analyzeVars, scanVars, retryVars>>
GuardOnly   == UNCHANGED <<timingVars, pipeVars, now, limiterVars, cacheVars, requestVars, sourceVars, singleVars, analyzeVars, scanVars, retryVars>>
PipeOnly    == UNCHANGED <<timingVars, guardVars, now, limiterVars, cacheVars, requestVars, sourceVars, singleVars, analyzeVars, scanVars, retryVars>>
LimiterOnly == UNCHANGED <<timingVars, guardVars, pipeVars, cacheVars, requestVars, sourceVars, singleVars, analyzeVars, scanVars, retryVars>>
CacheOnly   == UNCHANGED <<timingVars, guardVars, pipeVars, limiterVars, requestVars, sourceVars, singleVars, analyzeVars, scanVars, retryVars>>
RequestOnly == UNCHANGED <<timingVars, guardVars, pipeVars, now, limiterVars, cacheVars, sourceVars, singleVars, analyzeVars, scanVars, retryVars>>
SourceOnly  == UNCHANGED <<timingVars, guardVars, pipeVars, now, limiterVars, cacheVars, requestVars, singleVars, analyzeVars, scanVars, retryVars>>
SingleOnly  == UNCHANGED <<timingVars, guardVars, pipeVars, limiterVars, cacheVars, requestVars, sourceVars, analyzeVars, scanVars, retryVars>>
AnalyzeOnly == UNCHANGED <<timingVars, guardVars, pipeVars, now, limiterVars, cacheVars, requestVars, sourceVars, singleVars, scanVars, retryVars>>
ScanOnly    == UNCHANGED <<timingVars, guardVars, pipeVars, now, limiterVars, cacheVars, requestVars, sourceVars, singleVars, analyzeVars, retryVars>>
RetryOnly   == UNCHANGED <<timingVars, guardVars, pipeVars, cacheVars, requestVars, sourceVars, analyzeVars, scanVars>>

-----------------------------------------------------------------------------
(* Bounds of the model *)

FirstYear     == 2026   \* the dates evaluated are the days of this year
MaxHolidayLen == 5      \* longest closure block (calendar days) the calendar library reports
HolidayReach  == 7      \* the closure block starts within this many days of `today`
MaxDetails    == 6      \* confirm is re-applied while the details list is shorter than this
MaxTime       == 5      \* the clock runs from 0 to MaxTime
NumCallers    == 2      \* concurrent callers of RateLimiter.acquire
MaxAcquires   == 3      \* acquire() calls completed in one run
MaxRequests   == 2      \* max_requests is drawn from 1 .. MaxRequests
MaxWindow     == 2      \* window_seconds is drawn from 1 .. MaxWindow
NumCalls      == 2      \* concurrent get_or_fetch calls
MaxTtl        == 2      \* ttl is drawn from 1 .. MaxTtl
MaxFetches    == 2      \* fetcher invocations in one run
MaxNth        == 60     \* nth is drawn from -MaxNth .. MaxNth

-----------------------------------------------------------------------------
(* datetime.date arithmetic (ordinals), as CPython computes it *)

IsLeap(y) == (y % 4 = 0) /\ ((y % 100 # 0) \/ (y % 400 = 0))

DaysInMonth(y, m) ==
    IF m = 2 THEN (IF IsLeap(y) THEN 29 ELSE 28)
    ELSE IF m \in {4, 6, 9, 11} THEN 30 ELSE 31

DaysBeforeYear(y) ==
    LET p == y - 1 IN p * 365 + (p \div 4) - (p \div 100) + (p \div 400)

\* _DAYS_BEFORE_MONTH, plus the leap day after February
DaysBeforeMonth(y, m) ==
    <<0, 31, 59, 90, 120, 151, 181, 212, 243, 273, 304, 334>>[m]
    + (IF m > 2 /\ IsLeap(y) THEN 1 ELSE 0)

\* datetime.date(y, m, d).toordinal()
Date(y, m, d) == DaysBeforeYear(y) + DaysBeforeMonth(y, m) + d

\* datetime.date.fromordinal(o).year
YearOf(o) ==
    LET n0   == o - 1
        n400 == n0 \div 146097
        r400 == n0 % 146097
        n100 == r400 \div 36524
        r100 == r400 % 36524
        n4   == r100 \div 1461
        r4   == r100 % 1461
        n1   == r4 \div 365
        y    == n400 * 400 + n100 * 100 + n4 * 4 + n1 + 1
    IN  IF n1 = 4 \/ n100 = 4 THEN y - 1 ELSE y

RECURSIVE MonthFrom(_, _, _)
MonthFrom(y, doy, m) ==
    IF doy <= DaysBeforeMonth(y, m) + DaysInMonth(y, m) THEN m ELSE MonthFrom(y, doy, m + 1)

\* datetime.date.fromordinal(o).month
MonthOf(o) == LET y == YearOf(o) IN MonthFrom(y, o - DaysBeforeYear(y), 1)

DayOf(o) == o - DaysBeforeYear(YearOf(o)) - DaysBeforeMonth(YearOf(o), MonthOf(o))

\* date.weekday(): 0 = Monday ... 6 = Sunday
Weekday(o) == (o + 6) % 7

\* the (month, day) tuple compared lexicographically: a <= md <= b
MdLeq(m1, d1, m2, d2) == m1 < m2 \/ (m1 = m2 /\ d1 <= d2)

\* strftime("%Y-%m-%d"): the year, month and day fields of the date
Strftime(o) == <<YearOf(o), MonthOf(o), DayOf(o)>>

-----------------------------------------------------------------------------
(* engine/calendar.py *)

\* chinese_calendar.is_workday for a weekday: the library's holiday table
is_workday(d) == d \notin holidays

is_trading_day(d) ==
    IF Weekday(d) >= 5 THEN FALSE ELSE is_workday(d)

RECURSIVE WalkBack(_)
WalkBack(cur) == IF is_trading_day(cur) THEN cur ELSE WalkBack(cur - 1)

RECURSIVE WalkForward(_)
WalkForward(cur) == IF is_trading_day(cur) THEN cur ELSE WalkForward(cur + 1)

prev_trading_day(d) == WalkBack(d - 1)

next_trading_day(d) == WalkForward(d + 1)

trading_day_or_prev_skip(d) == d

trading_day_or_prev(d) == WalkBack(d)

\* returns [ok, date]; ok = FALSE stands for the ValueError raised
_nth_weekday_of_month(year, month, weekday, nth) ==
    LET first_day     == Date(year, month, 1)
        first_weekday == Weekday(first_day)
        diff          == (weekday - first_weekday) % 7
        first_target  == first_day + diff
        result        == first_target + 7 * (nth - 1)
    IN  IF MonthOf(result) # month
        THEN [ok |-> FALSE, date |-> result]
        ELSE [ok |-> TRUE, date |-> result]

futures_raw(year, month) == _nth_weekday_of_month(year, month, 4, 3).date

options_raw(year, month) == _nth_weekday_of_month(year, month, 2, 4).date

futures_settlement_day(year, month) == trading_day_or_prev(futures_raw(year, month))

options_settlement_day(year, month) == trading_day_or_prev(options_raw(year, month))

\* <<monday, friday>> of the week of d
_week_range(d) ==
    LET monday == d - Weekday(d) IN <<monday, monday + 4>>

is_futures_settlement_week(d) ==
    LET sd == futures_settlement_day(YearOf(d), MonthOf(d))
        wr == _week_range(sd)
    IN  wr[1] <= d /\ d <= wr[2]

is_options_settlement_week(d) ==
    LET sd == options_settlement_day(YearOf(d), MonthOf(d))
        wr == _week_range(sd)
    IN  wr[1] <= d /\ d <= wr[2]

NoDate == 0

settlement_week_info(d) ==
    LET fd    == futures_settlement_day(YearOf(d), MonthOf(d))
        od    == options_settlement_day(YearOf(d), MonthOf(d))
        in_fw == is_futures_settlement_week(d)
        in_ow == is_options_settlement_week(d)
        pre   == IF in_fw THEN trading_day_or_prev(_week_range(fd)[1] - 3)
                 ELSE IF in_ow THEN trading_day_or_prev(_week_range(od)[1] - 3)
                 ELSE NoDate
    IN  [is_futures_week |-> in_fw, is_options_week |-> in_ow,
         futures_day |-> fd, options_day |-> od, pre_retreat_day |-> pre]


-----------------------------------------------------------------------------
(* engine/timing.py *)

Lights  == {"RED", "YELLOW", "GREEN", "GREY"}
Actions == {"FORCE_EMPTY", "CLEAR_EXIT", "REST", "PRE_RETREAT", "PROBE_ENTRY",
            "OBSERVE", "NORMAL", "INACTIVE"}

NoStr == << >>    \* the empty string ""

\* the TimingSignal dataclass with its field defaults
TimingSignal(date, level, light, action, reason, details) ==
    [date |-> date, level |-> level, light |-> light, action |-> action,
     reason |-> reason, details |-> details,
     is_trading_day |-> TRUE, is_holiday |-> FALSE,
     holiday_name |-> NoStr, next_open_date |-> NoStr]

NoSignal == [level |-> -1]

InLevel1Window_exclusive(d) ==
    /\ MdLeq(3, 15, MonthOf(d), DayOf(d))
    /\ MdLeq(MonthOf(d), DayOf(d), 4, 29)

InLevel1Window(d) ==
    /\ MdLeq(3, 15, MonthOf(d), DayOf(d))
    /\ MdLeq(MonthOf(d), DayOf(d), 4, 30)

_check_level1(d) ==
    IF InLevel1Window(d)
    THEN TimingSignal(d, 1, "RED", "FORCE_EMPTY", <<"earnings_season">>,
                      << <<"dense_disclosure">>, <<"no_entry">> >>)
    ELSE NoSignal

InLevel2aWindow(d) ==
    /\ MdLeq(3, 5, MonthOf(d), DayOf(d))
    /\ MdLeq(MonthOf(d), DayOf(d), 3, 14)

_check_level2(d) ==
    IF InLevel2aWindow(d)
    THEN TimingSignal(d, 2, "YELLOW", "CLEAR_EXIT",
                      <<"pre_zone_exit", Date(YearOf(d), 3, 15) - d>>,
                      << <<"zone_ahead">>, <<"exit_only">> >>)
    ELSE IF MonthOf(d) = 12
    THEN TimingSignal(d, 2, "RED", "REST", <<"december_drain">>,
                      << <<"year_end_pressure">>, <<"rebalancing">>, <<"exit_only">> >>)
    ELSE NoSignal

\* the pre-retreat branch: d is a Friday
PreRetreat(d) ==
    LET next_monday == d + 3
        fd_next == futures_settlement_day(YearOf(next_monday), MonthOf(next_monday))
        od_next == options_settlement_day(YearOf(next_monday), MonthOf(next_monday))
    IN  IF _week_range(fd_next)[1] = next_monday
        THEN TimingSignal(d, 3, "YELLOW", "PRE_RETREAT",
                          <<"futures_pre_retreat", fd_next>>,
                          << <<"futures_week_next">>, <<"reduce_before_close">> >>)
        ELSE IF _week_range(od_next)[1] = next_monday
        THEN TimingSignal(d, 3, "YELLOW", "PRE_RETREAT",
                          <<"options_pre_retreat", od_next>>,
                          << <<"options_week_next">>, <<"reduce_before_close">> >>)
        ELSE NoSignal

ProbeTargets_futures_only(info) ==
    IF info.is_futures_week THEN << <<"futures", info.futures_day>> >> ELSE << >>

\* the Tuesday branch: targets lists the settlement weeks d lies in
ProbeTargets(info) ==
    (IF info.is_futures_week THEN << <<"futures", info.futures_day>> >> ELSE << >>)
    \o (IF info.is_options_week THEN << <<"options", info.options_day>> >> ELSE << >>)

SettlementDayObserve_futures_only(d, info) ==
    IF d = info.futures_day /\ info.is_futures_week
    THEN TimingSignal(d, 3, "YELLOW", "OBSERVE", <<"futures_settlement_day">>,
                      << <<"futures_settled">>, <<"watch_flows">> >>)
    ELSE NoSignal

SettlementDayObserve_green(d, info) ==
    IF d = info.futures_day /\ info.is_futures_week
    THEN TimingSignal(d, 3, "GREEN", "OBSERVE", <<"futures_settlement_day">>,
                      << <<"futures_settled">>, <<"watch_flows">> >>)
    ELSE IF d = info.options_day /\ info.is_options_week
    THEN TimingSignal(d, 3, "GREEN", "OBSERVE", <<"options_settlement_day">>,
                      << <<"options_settled">>, <<"watch_flows">> >>)
    ELSE NoSignal

SettlementDayObserve(d, info) ==
    IF d = info.futures_day /\ info.is_futures_week
    THEN TimingSignal(d, 3, "YELLOW", "OBSERVE", <<"futures_settlement_day">>,
                      << <<"futures_settled">>, <<"watch_flows">> >>)
    ELSE IF d = info.options_day /\ info.is_options_week
    THEN TimingSignal(d, 3, "YELLOW", "OBSERVE", <<"options_settlement_day">>,
                      << <<"options_settled">>, <<"watch_flows">> >>)
    ELSE NoSignal

_check_level3(d) ==
    LET info    == settlement_week_info(d)
        weekday == Weekday(d)
        pre     == IF weekday = 4 THEN PreRetreat(d) ELSE NoSignal
    IN  IF pre # NoSignal THEN pre
        ELSE IF weekday = 1 /\ ProbeTargets(info) # << >>
        THEN TimingSignal(d, 3, "GREEN", "PROBE_ENTRY",
                          <<"settlement_week_probe", ProbeTargets(info)>>,
                          << <<"watch_pullback">>, <<"probe_before_close">>, <<"light_position">> >>)
        ELSE SettlementDayObserve(d, info)

_HOLIDAY_NAMES(m, d) ==
    IF m = 1 /\ d \in {1, 2} THEN <<"new_year">>
    ELSE IF m = 2 /\ d \in 14..22 THEN <<"spring_festival">>
    ELSE IF m = 5 /\ d \in 1..3 THEN <<"labour_day">>
    ELSE IF m = 10 /\ d \in 1..7 THEN <<"national_day">>
    ELSE NoStr

\* chinese_calendar.is_holiday(d) is "not is_workday(d)"
_get_holiday_name(d) ==
    LET name == _HOLIDAY_NAMES(MonthOf(d), DayOf(d))
    IN  IF name # NoStr THEN name
        ELSE IF Weekday(d) >= 5 THEN <<"weekend">>
        ELSE IF ~is_workday(d) THEN <<"legal_holiday">>
        ELSE <<"non_trading_day">>

_build_inactive_signal(d) ==
    LET holiday_name == _get_holiday_name(d)
        next_open    == next_trading_day(d)
    IN  [date |-> d, level |-> 0, light |-> "GREY", action |-> "INACTIVE",
         reason |-> <<"closed", holiday_name, MonthOf(next_open), DayOf(next_open)>>,
         details |-> << <<"next_trading_day", Strftime(next_open)>> >>,
         is_trading_day |-> FALSE,
         is_holiday |-> holiday_name \notin {<<"weekend">>, <<"non_trading_day">>},
         holiday_name |-> holiday_name,
         next_open_date |-> Strftime(next_open)]

evaluate_l3_first(d) ==
    LET s3 == IF is_trading_day(d) THEN _check_level3(d) ELSE NoSignal
    IN  IF s3 # NoSignal THEN s3
        ELSE IF _check_level1(d) # NoSignal THEN _check_level1(d)
        ELSE IF _check_level2(d) # NoSignal THEN _check_level2(d)
        ELSE IF ~is_trading_day(d) THEN _build_inactive_signal(d)
        ELSE TimingSignal(d, 0, "GREEN", "NORMAL", <<"normal_trading">>, << >>)

evaluate(d) ==
    IF _check_level1(d) # NoSignal THEN _check_level1(d)
    ELSE IF _check_level2(d) # NoSignal THEN _check_level2(d)
    ELSE LET s3 == IF is_trading_day(d) THEN _check_level3(d) ELSE NoSignal
         IN  IF s3 # NoSignal THEN s3
             ELSE IF ~is_trading_day(d) THEN _build_inactive_signal(d)
             ELSE TimingSignal(d, 0, "GREEN", "NORMAL", <<"normal_trading">>, << >>)


-----------------------------------------------------------------------------
(* The calendar and the funnel as a state machine: a date and a holiday    *)
(* table are given, and the functions are called on them.                  *)

Dates == Date(FirstYear, 1, 1) .. Date(FirstYear, 12, 31)

\* the closures the calendar library may report around d: none, or one block
HolidayBlocks(d) ==
    {{}} \cup { hs .. (hs + len - 1) :
                    hs \in (d - HolidayReach) .. (d + HolidayReach),
                    len \in 1 .. MaxHolidayLen }

NoCall == [fn |-> "none", arg |-> << >>, ret |-> << >>]

TimingInit ==
    /\ today \in Dates
    /\ holidays \in HolidayBlocks(today)
    /\ call = NoCall

TimingIdle ==
    /\ today = Date(FirstYear, 1, 1)
    /\ holidays = {}
    /\ call = NoCall

Evaluate ==
    /\ call' = [fn |-> "evaluate", arg |-> <<today>>, ret |-> evaluate(today)]
    /\ UNCHANGED <<today, holidays>>
    /\ TimingOnly

FuturesSettlementDay ==
    /\ call' = [fn |-> "futures_settlement_day",
                arg |-> <<YearOf(today), MonthOf(today)>>,
                ret |-> futures_settlement_day(YearOf(today), MonthOf(today))]
    /\ UNCHANGED <<today, holidays>>
    /\ TimingOnly

OptionsSettlementDay ==
    /\ call' = [fn |-> "options_settlement_day",
                arg |-> <<YearOf(today), MonthOf(today)>>,
                ret |-> options_settlement_day(YearOf(today), MonthOf(today))]
    /\ UNCHANGED <<today, holidays>>
    /\ TimingOnly

\* settlement_week_info(d) for `today`
SettlementWeekInfo ==
    /\ call = NoCall
    /\ call' = [fn |-> "settlement_week_info", arg |-> <<today>>,
                ret |-> settlement_week_info(today)]
    /\ UNCHANGED <<today, holidays>>
    /\ TimingOnly

\* evaluate(p) for the pre-retreat day p that settlement_week_info reported
EvaluatePreRetreatDay ==
    /\ call.fn = "settlement_week_info"
    /\ call.ret.pre_retreat_day # NoDate
    /\ call' = [fn |-> "evaluate", arg |-> <<call.ret.pre_retreat_day>>,
                ret |-> evaluate(call.ret.pre_retreat_day)]
    /\ UNCHANGED <<today, holidays>>
    /\ TimingOnly

\* _nth_weekday_of_month(year, month, weekday, nth) for the month of `today`,
\* called once
NthWeekdayOfMonth ==
    /\ call = NoCall
    /\ \E weekday \in 0 .. 6, nth \in (0 - MaxNth) .. MaxNth :
           call' = [fn |-> "_nth_weekday_of_month",
                    arg |-> <<YearOf(today), MonthOf(today), weekday, nth>>,
                    ret |-> _nth_weekday_of_month(YearOf(today), MonthOf(today), weekday, nth)]
    /\ UNCHANGED <<today, holidays>>
    /\ TimingOnly


-----------------------------------------------------------------------------
(* engine/guard.py *)

INDEX_CRASH_PCT     == -300    \* -3.0 %
LIMIT_DOWN_CRASH    == 200
DOWN_UP_RATIO_CRASH == 3       \*  3.0
BROKEN_RATE_WARN    == 5000    \* 50.0 %
LIMIT_DOWN_WARN     == 50

\* the MarketSnapshot dataclass
MarketSnapshot(idx, up, down, lu, ld, bb, br) ==
    [index_change_pct |-> idx, up_count |-> up, down_count |-> down,
     limit_up_count |-> lu, limit_down_count |-> ld,
     broken_board_count |-> bb, broken_rate |-> br]

\* down_count / up_count >= DOWN_UP_RATIO_CRASH, asked only when up_count > 0
RatioCrash(snap) ==
    snap.up_count > 0 /\ snap.down_count >= DOWN_UP_RATIO_CRASH * snap.up_count

_check_crash_index_only(snap) ==
    LET r1 == IF snap.index_change_pct <= INDEX_CRASH_PCT
              THEN << <<"index_crash", snap.index_change_pct>> >> ELSE << >>
    IN  [verdict |-> IF r1 # << >> THEN "BLOCK" ELSE "PASS", reasons |-> r1]

_check_crash(snap) ==
    LET r1 == IF snap.index_change_pct <= INDEX_CRASH_PCT
              THEN << <<"index_crash", snap.index_change_pct>> >> ELSE << >>
        r2 == IF snap.limit_down_count >= LIMIT_DOWN_CRASH
              THEN << <<"limit_down_crash", snap.limit_down_count>> >> ELSE << >>
        r3 == IF RatioCrash(snap)
              THEN << <<"ratio_crash", snap.down_count, snap.up_count>> >> ELSE << >>
        reasons == r1 \o r2 \o r3
    IN  [verdict |-> IF reasons # << >> THEN "BLOCK" ELSE "PASS", reasons |-> reasons]

_check_warning(snap) ==
    LET r1 == IF snap.broken_rate >= BROKEN_RATE_WARN
              THEN << <<"broken_rate_warn", snap.broken_rate>> >> ELSE << >>
        r2 == IF LIMIT_DOWN_WARN <= snap.limit_down_count
                 /\ snap.limit_down_count < LIMIT_DOWN_CRASH
              THEN << <<"limit_down_warn", snap.limit_down_count>> >> ELSE << >>
        reasons == r1 \o r2
    IN  [verdict |-> IF reasons # << >> THEN "DOWNGRADE" ELSE "PASS", reasons |-> reasons]

\* which of confirm's return statements is taken
GuardBranch(signal, snap) ==
    IF signal.action # "PROBE_ENTRY" THEN "SKIP"
    ELSE IF _check_crash(snap).verdict = "BLOCK" THEN "BLOCK"
    ELSE IF _check_warning(snap).verdict = "DOWNGRADE" THEN "DOWNGRADE"
    ELSE "PASS"

GuardNote == <<"guard_confirmed">>

confirm_downgrading_on_pass(signal, snap) ==
    LET branch == GuardBranch(signal, snap)
    IN  IF branch = "SKIP" THEN signal
        ELSE IF branch = "BLOCK"
        THEN TimingSignal(signal.date, signal.level, "RED", "OBSERVE",
                          <<"guard_block">>,
                          << <<"original_signal", signal.reason>> >>
                          \o _check_crash(snap).reasons
                          \o << <<"wait_for_stabilisation">> >>)
        ELSE IF branch = "DOWNGRADE"
        THEN TimingSignal(signal.date, signal.level, "YELLOW", "PROBE_ENTRY",
                          <<"guard_downgrade">>,
                          << <<"original_signal", signal.reason>> >>
                          \o _check_warning(snap).reasons
                          \o << <<"position_at_most_one_tenth">> >>)
        ELSE [signal EXCEPT !.details = <<GuardNote>> \o signal.details,
                            !.light = IF signal.light = "GREEN" THEN "YELLOW" ELSE "RED"]

\* the signal confirm returns
confirm(signal, snap) ==
    LET branch == GuardBranch(signal, snap)
    IN  IF branch = "SKIP" THEN signal
        ELSE IF branch = "BLOCK"
        THEN TimingSignal(signal.date, signal.level, "RED", "OBSERVE",
                          <<"guard_block">>,
                          << <<"original_signal", signal.reason>> >>
                          \o _check_crash(snap).reasons
                          \o << <<"wait_for_stabilisation">> >>)
        ELSE IF branch = "DOWNGRADE"
        THEN TimingSignal(signal.date, signal.level, "YELLOW", "PROBE_ENTRY",
                          <<"guard_downgrade">>,
                          << <<"original_signal", signal.reason>> >>
                          \o _check_warning(snap).reasons
                          \o << <<"position_at_most_one_tenth">> >>)
        ELSE [signal EXCEPT !.details = <<GuardNote>> \o signal.details]

confirm_argument_after_appending(signal, snap) ==
    IF GuardBranch(signal, snap) = "PASS"
    THEN [signal EXCEPT !.details = signal.details \o <<GuardNote>>]
    ELSE signal

\* the object passed to confirm, after the call: PASS inserts into its
\* details list in place and returns that same object
confirm_argument_after(signal, snap) ==
    IF GuardBranch(signal, snap) = "PASS"
    THEN [signal EXCEPT !.details = <<GuardNote>> \o signal.details]
    ELSE signal

-----------------------------------------------------------------------------
(* confirm as a state machine: a signal and a snapshot are given *)

GuardDates == Date(FirstYear, 5, 19) .. Date(FirstYear, 5, 27)

ScenarioD == MarketSnapshot(-350, 300, 4200, 5, 150, 0, 8000)
ScenarioE == MarketSnapshot(-120, 1500, 2800, 25, 15, 0, 5500)

GuardSnaps ==
    { MarketSnapshot(idx, up, down, 0, ld, 0, br) :
        idx \in {-350, -300, -299, 0}, up \in {0, 1, 2}, down \in {0, 3, 5},
        ld \in {0, 49, 50, 199, 200}, br \in {0, 4999, 5000, 5500} }
    \cup {ScenarioD, ScenarioE}

NoSnap == [up_count |-> -1]

GuardInit ==
    /\ g_signal \in {evaluate(d) : d \in GuardDates}
    /\ g_snap \in GuardSnaps
    /\ g_out = NoSignal

GuardIdle ==
    /\ g_signal = NoSignal
    /\ g_snap = NoSnap
    /\ g_out = NoSignal

\* final = confirm(signal, snap)
Confirm ==
    /\ g_out = NoSignal
    /\ g_out' = confirm(g_signal, g_snap)
    /\ g_signal' = confirm_argument_after(g_signal, g_snap)
    /\ UNCHANGED g_snap
    /\ GuardOnly

\* confirm applied to its own output with the same snapshot
ConfirmAgain ==
    /\ g_out # NoSignal
    /\ Len(g_out.details) < MaxDetails
    /\ g_out' = confirm(g_out, g_snap)
    /\ g_signal' = confirm_argument_after(g_out, g_snap)
    /\ UNCHANGED g_snap
    /\ GuardOnly


-----------------------------------------------------------------------------
(* engine/bridge.py *)

\* str values are sequences of one-character strings
Code_000001_SH == <<"0", "0", "0", "0", "0", "1", ".", "S", "H">>
Code_399006_SZ == <<"3", "9", "9", "0", "0", "6", ".", "S", "Z">>
Code_600519_SH == <<"6", "0", "0", "5", "1", "9", ".", "S", "H">>
Code_300750_SZ == <<"3", "0", "0", "7", "5", "0", ".", "S", "Z">>
Code_000002    == <<"0", "0", "0", "0", "0", "2">>
Code_688001_SH == <<"6", "8", "8", "0", "0", "1", ".", "S", "H">>
Code_430047_BJ == <<"4", "3", "0", "0", "4", "7", ".", "B", "J">>

INDEX_CODES == { <<"0", "0", "0", "0", "0", "1">>,
                 <<"3", "9", "9", "0", "0", "1">>,
                 <<"3", "9", "9", "0", "0", "6">> }

\* dm.split(".")[0] if "." in dm else dm
RECURSIVE PureCode(_)
PureCode(dm) ==
    IF dm = << >> \/ Head(dm) = "." THEN << >>
    ELSE <<Head(dm)>> \o PureCode(Tail(dm))

\* a quote row: a dict with "dm" and an optional "pc" (<< >> when absent or None)
Quote(dm, pc) == [kind |-> "dict", dm |-> dm, pc |-> pc]

\* q.get("pc", 0) or 0
PcOf(q) == IF q.pc = << >> THEN 0 ELSE q.pc[1]

IsIndexQuote(q) == PureCode(q.dm) \in INDEX_CODES

IsCountedStock(q) ==
    LET pure == PureCode(q.dm)
    IN  Len(pure) = 6 /\ pure[1] \in {"0", "3", "6", "8"}

RECURSIVE WorstIndexPct(_, _)
WorstIndexPct(quotes, worst) ==
    IF quotes = << >> THEN worst
    ELSE LET q == Head(quotes)
         IN  WorstIndexPct(Tail(quotes),
                           IF IsIndexQuote(q) /\ PcOf(q) < worst THEN PcOf(q) ELSE worst)

RECURSIVE CountQuotes(_, _)
CountQuotes(quotes, sign) ==
    IF quotes = << >> THEN 0
    ELSE LET q == Head(quotes)
         IN  (IF IsCountedStock(q) /\ PcOf(q) * sign > 0 THEN 1 ELSE 0)
             + CountQuotes(Tail(quotes), sign)

\* a payload returned by the client: a list, a dict (its keys) or None
ListPayload(items) == [kind |-> "list", items |-> items]
DictPayload(keys)  == [kind |-> "dict", items |-> keys]
NonePayload        == [kind |-> "none", items |-> << >>]
Raised(exc)        == [kind |-> "raise", items |-> <<exc>>]

\* len(pool) if isinstance(pool, list) else 0
PoolCount(pool) == IF pool.kind = "list" THEN Len(pool.items) ELSE 0

\* the exception the loop over quotes raises, << >> when it runs through:
\* None is not iterable, iterating a dict yields its str keys, and a row
\* that is no dict has no .get
QuotesLoopError(quotes) ==
    IF quotes.kind = "none" THEN <<"TypeError">>
    ELSE IF \E i \in 1 .. Len(quotes.items) :
              quotes.kind = "dict" \/ quotes.items[i].kind # "dict"
    THEN <<"AttributeError">>
    ELSE << >>

\* bb / total * 100, in hundredths of a percent
BrokenRate(bb, total) == IF total > 0 THEN (bb * 10000) \div total ELSE 0

\* the part of fetch_market_snapshot after the four awaits
BuildSnapshot(quotes, zt_pool, dt_pool, zb_pool) ==
    LET limit_up_count     == PoolCount(zt_pool)
        limit_down_count   == PoolCount(dt_pool)
        broken_board_count == PoolCount(zb_pool)
    IN  MarketSnapshot(WorstIndexPct(quotes.items, 0),
                       CountQuotes(quotes.items, 1),
                       CountQuotes(quotes.items, -1),
                       limit_up_count, limit_down_count, broken_board_count,
                       BrokenRate(broken_board_count, limit_up_count + broken_board_count))

_fail_safe_signal(d, error_msg) ==
    TimingSignal(d, 99, "RED", "OBSERVE", <<"data_unavailable">>,
                 << <<"error", error_msg>>, <<"strictest_block">>, <<"decide_after_recovery">> >>)

CatchesException_runtime_only(exc) == exc = "RuntimeError"

\* "except Exception": every exception the snapshot assembly can raise is one
CatchesException(exc) ==
    exc \in {"RuntimeError", "TimeoutException", "ConnectError", "ReadError",
             "HTTPStatusError", "ValueError", "TypeError", "AttributeError"}

-----------------------------------------------------------------------------
(* run_timing_pipeline and the /timing/today route as a process *)

UpstreamErrors == {"RuntimeError", "TimeoutException"}

Rows(n) == [i \in 1 .. n |-> [kind |-> "dict"]]

QuotePayloads ==
    { ListPayload(<< >>),
      ListPayload(<<Quote(Code_000001_SH, <<-80>>), Quote(Code_600519_SH, <<120>>),
                    Quote(Code_300750_SZ, <<-200>>), Quote(Code_430047_BJ, <<-100>>),
                    Quote(Code_688001_SH, << >>)>>),
      ListPayload(<<Quote(Code_000001_SH, <<-80>>), Quote(Code_399006_SZ, <<-350>>),
                    Quote(Code_600519_SH, <<120>>), Quote(Code_300750_SZ, <<-200>>)>>),
      ListPayload(<<Quote(Code_600519_SH, <<120>>), Quote(Code_300750_SZ, <<-200>>),
                    Quote(Code_000002, <<-50>>), Quote(Code_688001_SH, <<-10>>)>>),
      ListPayload(<<[kind |-> "str"]>>),
      DictPayload(<<[kind |-> "str"]>>),
      DictPayload(<< >>),
      NonePayload }

PoolPayloads(sizes) == { ListPayload(Rows(n)) : n \in sizes } \cup { DictPayload(<< >>) }

ZtPayloads == PoolPayloads({0, 1})
DtPayloads == PoolPayloads({0, 50, 200})
ZbPayloads == PoolPayloads({0, 1, 3})

Responses(payloads) == payloads \cup { Raised(e) : e \in UpstreamErrors }

PipeInit ==
    /\ p_pc = "start"
    /\ p_entry \in {"pipeline", "route"}
    /\ p_signal = NoSignal
    /\ p_data = << >>
    /\ p_snap = NoSnap
    /\ p_final = NoSignal
    /\ p_raised = FALSE

PipeIdle ==
    /\ p_pc = "idle"
    /\ p_entry = "pipeline"
    /\ p_signal = NoSignal
    /\ p_data = << >>
    /\ p_snap = NoSnap
    /\ p_final = NoSignal
    /\ p_raised = FALSE

\* the except clause: the fail-safe signal, or the exception leaves
PipeFail(exc) ==
    /\ p_pc' = "done"
    /\ p_raised' = ~CatchesException(exc)
    /\ p_final' = IF CatchesException(exc) THEN _fail_safe_signal(today, exc) ELSE NoSignal

\* signal = evaluate(today); a signal that is no PROBE_ENTRY is returned as it is
PipeEvaluate ==
    /\ p_pc = "start"
    /\ p_signal' = evaluate(today)
    /\ IF evaluate(today).action # "PROBE_ENTRY"
       THEN /\ p_pc' = "done"
            /\ p_final' = evaluate(today)
       ELSE /\ p_pc' = "quotes"
            /\ UNCHANGED p_final
    /\ UNCHANGED <<p_entry, p_data, p_snap, p_raised>>
    /\ PipeOnly

\* await source.get_realtime_all() / get_pool("ztgc") / get_pool("dtgc")
PipeFetch(at, next, payloads) ==
    /\ p_pc = at
    /\ \E r \in Responses(payloads) :
          /\ p_data' = Append(p_data, r)
          /\ IF r.kind = "raise"
             THEN PipeFail(r.items[1])
             ELSE /\ p_pc' = next
                  /\ UNCHANGED <<p_final, p_raised>>
    /\ UNCHANGED <<p_entry, p_signal, p_snap>>
    /\ PipeOnly

PipeFetchQuotes == PipeFetch("quotes", "zt", QuotePayloads)
PipeFetchZt     == PipeFetch("zt", "dt", ZtPayloads)
PipeFetchDt     == PipeFetch("dt", "zb", DtPayloads)

\* await get_pool("zbgc"), then the rest of fetch_market_snapshot and
\* confirm(signal, snap), which run without a further await
PipeFetchZbAndConfirm ==
    /\ p_pc = "zb"
    /\ \E r \in Responses(ZbPayloads) :
          /\ p_data' = Append(p_data, r)
          /\ IF r.kind = "raise"
             THEN PipeFail(r.items[1]) /\ UNCHANGED <<p_snap, p_signal>>
             ELSE IF QuotesLoopError(p_data[1]) # << >>
             THEN PipeFail(QuotesLoopError(p_data[1])[1]) /\ UNCHANGED <<p_snap, p_signal>>
             ELSE LET snap == BuildSnapshot(p_data[1], p_data[2], p_data[3], r)
                  IN  /\ p_snap' = snap
                      /\ p_final' = confirm(p_signal, snap)
                      /\ p_signal' = confirm_argument_after(p_signal, snap)
                      /\ p_pc' = "done"
                      /\ UNCHANGED p_raised
    /\ UNCHANGED p_entry
    /\ PipeOnly


-----------------------------------------------------------------------------
(* The clock *)

Tick ==
    /\ now < MaxTime
    /\ now' = now + 1

-----------------------------------------------------------------------------
(* data/rate_limiter.py: RateLimiter *)

Callers == 1 .. NumCallers

\* while self._timestamps and self._timestamps[0] <= cutoff: popleft()
RECURSIVE Evict(_, _)
Evict(ts, cutoff) ==
    IF ts # << >> /\ Head(ts) <= cutoff THEN Evict(Tail(ts), cutoff) ELSE ts

WindowFull_off_by_one(ts, max) == Len(ts) > max

\* len(self._timestamps) >= self._max_requests
WindowFull(ts, max) == Len(ts) >= max

\* wait_time = self._timestamps[0] - cutoff
WaitTime(ts, cutoff) == Head(ts) - cutoff

LimiterInit ==
    /\ rl_max \in 1 .. MaxRequests
    /\ rl_window \in 1 .. MaxWindow
    /\ timestamps = << >>
    /\ rl_lock = {}
    /\ rl_pc = [c \in Callers |-> "idle"]
    /\ rl_wake = [c \in Callers |-> 0]
    /\ completions = << >>

LimiterIdle ==
    /\ rl_max = 1
    /\ rl_window = 1
    /\ timestamps = << >>
    /\ rl_lock = {}
    /\ rl_pc = [c \in Callers |-> "idle"]
    /\ rl_wake = [c \in Callers |-> 0]
    /\ completions = << >>

\* a caller calls acquire() and queues for the lock
RlCall(c) ==
    /\ rl_pc[c] = "idle"
    /\ Len(completions) + Cardinality({x \in Callers : rl_pc[x] \in {"waiting", "sleeping"}})
         < MaxAcquires
    /\ rl_pc' = [rl_pc EXCEPT ![c] = "waiting"]
    /\ UNCHANGED <<now, rl_max, rl_window, timestamps, rl_lock, rl_wake, completions>>
    /\ LimiterOnly

\* the caller gets the lock and runs to the sleep, or to the end
RlEnter(c) ==
    /\ rl_pc[c] = "waiting"
    /\ rl_lock = {}
    /\ LET cutoff == now - rl_window
           ts     == Evict(timestamps, cutoff)
       IN  IF WindowFull(ts, rl_max)
           THEN /\ timestamps' = ts
                /\ rl_lock' = {c}
                /\ rl_wake' = [rl_wake EXCEPT ![c] = now + WaitTime(ts, cutoff)]
                /\ rl_pc' = [rl_pc EXCEPT ![c] = "sleeping"]
                /\ UNCHANGED completions
           ELSE /\ timestamps' = Append(ts, now)
                /\ completions' = Append(completions, now)
                /\ rl_pc' = [rl_pc EXCEPT ![c] = "done"]
                /\ UNCHANGED <<rl_lock, rl_wake>>
    /\ UNCHANGED <<now, rl_max, rl_window>>
    /\ LimiterOnly

RlWake_keeps_lock(c) ==
    /\ rl_pc[c] = "sleeping"
    /\ now >= rl_wake[c]
    /\ timestamps' = Append(Evict(timestamps, now - rl_window), now)
    /\ completions' = Append(completions, now)
    /\ rl_pc' = [rl_pc EXCEPT ![c] = "done"]
    /\ UNCHANGED <<now, rl_max, rl_window, rl_wake, rl_lock>>
    /\ LimiterOnly

\* asyncio.sleep(wait_time) is over: evict again, append, release the lock
RlWake(c) ==
    /\ rl_pc[c] = "sleeping"
    /\ now >= rl_wake[c]
    /\ timestamps' = Append(Evict(timestamps, now - rl_window), now)
    /\ completions' = Append(completions, now)
    /\ rl_lock' = {}
    /\ rl_pc' = [rl_pc EXCEPT ![c] = "done"]
    /\ UNCHANGED <<now, rl_max, rl_window, rl_wake>>
    /\ LimiterOnly

\* acquire() has returned; the caller may call again
RlReturn(c) ==
    /\ rl_pc[c] = "done"
    /\ rl_pc' = [rl_pc EXCEPT ![c] = "idle"]
    /\ UNCHANGED <<now, rl_max, rl_window, timestamps, rl_lock, rl_wake, completions>>
    /\ LimiterOnly

RlTick == Tick /\ UNCHANGED limiterVars /\ LimiterOnly

\* time.monotonic() goes on while a caller is in asyncio.sleep
RlSleepTick ==
    /\ \E c \in Callers : rl_pc[c] = "sleeping" /\ rl_wake[c] > now
    /\ now' = now + 1
    /\ UNCHANGED limiterVars
    /\ LimiterOnly

-----------------------------------------------------------------------------
(* data/rate_limiter.py: SingleCallLimiter *)

MaxCooldown == 2      \* cooldown_seconds is drawn from 1 .. MaxCooldown

NeedsCooldown_off_by_one(elapsed, cooldown) == elapsed < cooldown - 1

\* if elapsed < self._cooldown
NeedsCooldown(elapsed, cooldown) == elapsed < cooldown

SingleInit ==
    /\ sc_cooldown \in 1 .. MaxCooldown
    /\ sc_last_call = 0
    /\ sc_lock = {}
    /\ sc_pc = [c \in Callers |-> "idle"]
    /\ sc_wake = [c \in Callers |-> 0]
    /\ sc_completions = << >>

SingleIdle ==
    /\ sc_cooldown = 1
    /\ sc_last_call = 0
    /\ sc_lock = {}
    /\ sc_pc = [c \in Callers |-> "idle"]
    /\ sc_wake = [c \in Callers |-> 0]
    /\ sc_completions = << >>

\* a caller calls acquire() and queues for the lock
ScCall(c) ==
    /\ sc_pc[c] = "idle"
    /\ Len(sc_completions)
         + Cardinality({x \in Callers : sc_pc[x] \in {"waiting", "sleeping"}}) < MaxAcquires
    /\ sc_pc' = [sc_pc EXCEPT ![c] = "waiting"]
    /\ UNCHANGED <<now, sc_cooldown, sc_last_call, sc_lock, sc_wake, sc_completions>>
    /\ SingleOnly

\* the caller gets the lock and runs to the sleep, or to the end
ScEnter(c) ==
    /\ sc_pc[c] = "waiting"
    /\ sc_lock = {}
    /\ LET elapsed == now - sc_last_call
       IN  IF NeedsCooldown(elapsed, sc_cooldown)
           THEN /\ sc_lock' = {c}
                /\ sc_wake' = [sc_wake EXCEPT ![c] = now + (sc_cooldown - elapsed)]
                /\ sc_pc' = [sc_pc EXCEPT ![c] = "sleeping"]
                /\ UNCHANGED <<sc_last_call, sc_completions>>
           ELSE /\ sc_last_call' = now
                /\ sc_completions' = Append(sc_completions, now)
                /\ sc_pc' = [sc_pc EXCEPT ![c] = "done"]
                /\ UNCHANGED <<sc_lock, sc_wake>>
    /\ UNCHANGED <<now, sc_cooldown>>
    /\ SingleOnly

\* asyncio.sleep is over: record the call, release the lock
ScWake(c) ==
    /\ sc_pc[c] = "sleeping"
    /\ now >= sc_wake[c]
    /\ sc_last_call' = now
    /\ sc_completions' = Append(sc_completions, now)
    /\ sc_lock' = {}
    /\ sc_pc' = [sc_pc EXCEPT ![c] = "done"]
    /\ UNCHANGED <<now, sc_cooldown, sc_wake>>
    /\ SingleOnly

\* acquire() has returned; the caller may call again
ScReturn(c) ==
    /\ sc_pc[c] = "done"
    /\ sc_pc' = [sc_pc EXCEPT ![c] = "idle"]
    /\ UNCHANGED <<now, sc_cooldown, sc_last_call, sc_lock, sc_wake, sc_completions>>
    /\ SingleOnly

ScTick == Tick /\ UNCHANGED singleVars /\ SingleOnly

-----------------------------------------------------------------------------
(* data/cache.py: MemoryCache *)

Calls  == 1 .. NumCalls
Keys   == {"realtime_all", "stock_list"}
None   == "None"
Values == {None, "A"}

\* _store[k] is << >> when the key is absent, else <<entry>>
NoEntry == << >>

Entry(value, expires_at) == <<[value |-> value, expires_at |-> expires_at]>>

Present(k) == store[k] # NoEntry

\* MemoryCache.get: the value returned
CacheGet(k) ==
    IF ~Present(k) THEN None
    ELSE IF now > store[k][1].expires_at THEN None
    ELSE store[k][1].value

\* MemoryCache.get: the store after the call (an expired entry is deleted)
StoreAfterGet(k) ==
    IF Present(k) /\ now > store[k][1].expires_at
    THEN [store EXCEPT ![k] = NoEntry] ELSE store

\* "if cached is not None"
IsHit(cached) == cached # None

CacheInit ==
    /\ store = [k \in Keys |-> NoEntry]
    /\ c_ttl \in 1 .. MaxTtl
    /\ c_key = [c \in Calls |-> "realtime_all"]
    /\ c_pc = [c \in Calls |-> "idle"]
    /\ c_val = [c \in Calls |-> None]
    /\ c_expect = [c \in Calls |-> FALSE]
    /\ stored_at = [k \in Keys |-> << >>]
    /\ fetches = [k \in Keys |-> 0]

CacheIdle ==
    /\ store = [k \in Keys |-> NoEntry]
    /\ c_ttl = 1
    /\ c_key = [c \in Calls |-> "realtime_all"]
    /\ c_pc = [c \in Calls |-> "idle"]
    /\ c_val = [c \in Calls |-> None]
    /\ c_expect = [c \in Calls |-> FALSE]
    /\ stored_at = [k \in Keys |-> << >>]
    /\ fetches = [k \in Keys |-> 0]

\* get_or_fetch(k, ttl, fetcher) up to the fetcher: cached = await self.get(key)
CGet(c, k) ==
    /\ c_pc[c] = "idle"
    /\ fetches[k] < MaxFetches
    /\ c_key' = [c_key EXCEPT ![c] = k]
    /\ store' = StoreAfterGet(k)
    /\ c_expect' = [c_expect EXCEPT ![c] =
                      stored_at[k] # << >> /\ now - stored_at[k][1] < c_ttl]
    /\ IF IsHit(CacheGet(k))
       THEN /\ c_pc' = [c_pc EXCEPT ![c] = "returned"]
            /\ c_val' = [c_val EXCEPT ![c] = CacheGet(k)]
       ELSE /\ c_pc' = [c_pc EXCEPT ![c] = "fetching"]
            /\ c_val' = [c_val EXCEPT ![c] = None]
    /\ UNCHANGED <<now, c_ttl, stored_at, fetches>>
    /\ CacheOnly

\* value = await fetcher(): it returns a value
CFetch(c) ==
    /\ c_pc[c] = "fetching"
    /\ fetches' = [fetches EXCEPT ![c_key[c]] = @ + 1]
    /\ \E v \in Values : c_val' = [c_val EXCEPT ![c] = v]
    /\ c_pc' = [c_pc EXCEPT ![c] = "setting"]
    /\ UNCHANGED <<now, store, c_ttl, c_key, c_expect, stored_at>>
    /\ CacheOnly

\* value = await fetcher(): it raises, and get_or_fetch with it
CFetchRaises(c) ==
    /\ c_pc[c] = "fetching"
    /\ fetches' = [fetches EXCEPT ![c_key[c]] = @ + 1]
    /\ c_pc' = [c_pc EXCEPT ![c] = "raised"]
    /\ UNCHANGED <<now, store, c_ttl, c_key, c_val, c_expect, stored_at>>
    /\ CacheOnly

\* await self.set(key, value, ttl); return value
CSet(c) ==
    /\ c_pc[c] = "setting"
    /\ store' = [store EXCEPT ![c_key[c]] = Entry(c_val[c], now + c_ttl)]
    /\ stored_at' = [stored_at EXCEPT ![c_key[c]] = <<now>>]
    /\ c_pc' = [c_pc EXCEPT ![c] = "returned"]
    /\ UNCHANGED <<now, c_ttl, c_key, c_val, c_expect, fetches>>
    /\ CacheOnly

\* the call is over; the caller may call again
CDone(c) ==
    /\ c_pc[c] \in {"returned", "raised"}
    /\ c_pc' = [c_pc EXCEPT ![c] = "idle"]
    /\ c_val' = [c_val EXCEPT ![c] = None]
    /\ c_expect' = [c_expect EXCEPT ![c] = FALSE]
    /\ UNCHANGED <<now, store, c_ttl, c_key, stored_at, fetches>>
    /\ CacheOnly

CInvalidate(k) ==
    /\ Present(k)
    /\ store' = [store EXCEPT ![k] = NoEntry]
    /\ stored_at' = [stored_at EXCEPT ![k] = << >>]
    /\ UNCHANGED <<now, c_ttl, c_key, c_pc, c_val, c_expect, fetches>>
    /\ CacheOnly

CClear ==
    /\ \E k \in Keys : Present(k)
    /\ store' = [k \in Keys |-> NoEntry]
    /\ stored_at' = [k \in Keys |-> << >>]
    /\ UNCHANGED <<now, c_ttl, c_key, c_pc, c_val, c_expect, fetches>>
    /\ CacheOnly

CTick == Tick /\ UNCHANGED cacheVars /\ CacheOnly


-----------------------------------------------------------------------------
(* data/source_zhitu.py: ZhituSource._request under tenacity.retry *)

_RETRYABLE == {"TimeoutException", "ConnectError", "ReadError"}

\* what one pass through the body of _request ends in: the data, an httpx
\* transport error, HTTPStatusError from raise_for_status, or the RuntimeError
\* raised for a non-success code in the envelope
AttemptOutcomes ==
    {"ok", "TimeoutException", "ConnectError", "ReadError", "WriteError",
     "HTTPStatusError", "RuntimeError"}

StopAfterAttempt == 3

retry_if_any_exception(exc) == exc # "ok"

\* retry=retry_if_exception_type(_RETRYABLE)
retry_if_exception_type(exc) == exc \in _RETRYABLE

\* stop=stop_after_attempt(3)
stop_after_attempt(attempt_number) == attempt_number >= StopAfterAttempt

RECURSIVE Pow2(_)
Pow2(n) == IF n = 0 THEN 1 ELSE 2 * Pow2(n - 1)

Max(a, b) == IF a >= b THEN a ELSE b
Min(a, b) == IF a <= b THEN a ELSE b

\* wait=wait_exponential(multiplier=1, min=1, max=10)
wait_exponential(attempt_number) == Max(1, Min(Pow2(attempt_number - 1), 10))

AttemptEvents_request_first(realall) ==
    <<"client.get", "general_limiter.acquire">>
    \o (IF realall THEN <<"realall_limiter.acquire">> ELSE << >>)

\* the limiter acquisitions and the HTTP request of one pass, in order
AttemptEvents(realall) ==
    (IF realall THEN <<"realall_limiter.acquire">> ELSE << >>)
    \o <<"general_limiter.acquire", "client.get">>

RequestInit ==
    /\ r_pc = "idle"
    /\ r_realall \in BOOLEAN
    /\ r_attempts = 0
    /\ r_wait = 0
    /\ r_outcomes = << >>
    /\ r_trace = << >>
    /\ r_result = << >>

RequestIdle ==
    /\ r_pc = "idle"
    /\ r_realall = FALSE
    /\ r_attempts = 0
    /\ r_wait = 0
    /\ r_outcomes = << >>
    /\ r_trace = << >>
    /\ r_result = << >>

\* a caller calls self._request(path, params, use_realall_limiter)
RequestStart ==
    /\ r_pc = "idle"
    /\ r_pc' = "attempt"
    /\ UNCHANGED <<r_realall, r_attempts, r_wait, r_outcomes, r_trace, r_result>>
    /\ RequestOnly

\* one pass through the body of _request, and tenacity's decision on it
RequestAttempt ==
    /\ r_pc = "attempt"
    /\ \E o \in AttemptOutcomes :
          /\ r_attempts' = r_attempts + 1
          /\ r_outcomes' = Append(r_outcomes, o)
          /\ r_trace' = r_trace \o AttemptEvents(r_realall)
          /\ IF o = "ok"
             THEN /\ r_pc' = "ended"
                  /\ r_result' = <<"returned">>
                  /\ UNCHANGED r_wait
             ELSE IF ~retry_if_exception_type(o) \/ stop_after_attempt(r_attempts + 1)
             THEN /\ r_pc' = "ended"
                  /\ r_result' = <<"raised", o>>
                  /\ UNCHANGED r_wait
             ELSE /\ r_pc' = "backoff"
                  /\ r_wait' = wait_exponential(r_attempts + 1)
                  /\ UNCHANGED r_result
    /\ UNCHANGED r_realall
    /\ RequestOnly

\* the backoff sleep is over
RequestBackoffDone ==
    /\ r_pc = "backoff"
    /\ r_pc' = "attempt"
    /\ r_wait' = 0
    /\ UNCHANGED <<r_realall, r_attempts, r_outcomes, r_trace, r_result>>
    /\ RequestOnly

-----------------------------------------------------------------------------
(* data/source_zhitu.py: the getters of ZhituSource *)

Getters ==
    {"get_stock_list", "get_realtime_quote", "get_realtime_all", "get_history_kline",
     "get_pool", "get_company_info", "get_finance_report", "get_technical_indicator"}

\* the getters that wrap their _request in cache.get_or_fetch
UsesCache(g) ==
    g \in {"get_stock_list", "get_realtime_quote", "get_realtime_all", "get_pool"}

\* use_realall_limiter=True
UsesRealallLimiter(g) == g = "get_realtime_all"

\* the getters that look their argument up in a table and raise ValueError
ValidatesArgument(g) ==
    g \in {"get_pool", "get_company_info", "get_finance_report", "get_technical_indicator"}

\* the getters that pass their code through normalize_code
NormalizesCode(g) ==
    g \in {"get_realtime_quote", "get_history_kline", "get_finance_report",
           "get_technical_indicator"}

\* the getters that pass their code through to_pure_code only
PureCodeOnly(g) == g = "get_company_info"

\* the keys of _EXCHANGE_RULES
_EXCHANGE_RULES == {"6", "9", "5", "0", "1", "2", "3", "4", "8"}

\* detect_exchange raises ValueError
detect_exchange_raises(pure_code) == pure_code[1] \notin _EXCHANGE_RULES

\* normalize_code raises ValueError: only a code without "." and without an
\* exchange prefix reaches detect_exchange (codes are non-empty, upper case)
normalize_code_raises(raw) ==
    /\ \A k \in DOMAIN raw : raw[k] # "."
    /\ SubSeq(raw, 1, 2) \notin {<<"S", "H">>, <<"S", "Z">>, <<"B", "J">>}
    /\ detect_exchange_raises(raw)

Code_SH600519 == <<"S", "H", "6", "0", "0", "5", "1", "9">>
Code_700001   == <<"7", "0", "0", "0", "0", "1">>

\* a dotted code, a prefixed code, a bare code of a known exchange and a bare
\* code whose first digit is in no rule
SourceCodes == {Code_600519_SH, Code_SH600519, Code_000002, Code_700001}

SourceInit ==
    /\ s_pc = "idle"
    /\ s_getter \in Getters
    /\ s_valid \in BOOLEAN
    /\ s_code \in (IF NormalizesCode(s_getter) \/ PureCodeOnly(s_getter)
                   THEN SourceCodes ELSE {<< >>})
    /\ s_cached \in BOOLEAN
    /\ s_attempts = 0
    /\ s_trace = << >>
    /\ s_result = << >>

SourceIdle ==
    /\ s_pc = "idle"
    /\ s_getter = "get_stock_list"
    /\ s_valid = TRUE
    /\ s_code = << >>
    /\ s_cached = FALSE
    /\ s_attempts = 0
    /\ s_trace = << >>
    /\ s_result = << >>

\* the getter up to its first _request: the argument check, then
\* cache.get_or_fetch's lookup
SrcCall ==
    /\ s_pc = "idle"
    /\ IF \/ NormalizesCode(s_getter) /\ normalize_code_raises(s_code)
          \/ ValidatesArgument(s_getter) /\ ~s_valid
       THEN /\ s_pc' = "ended"
            /\ s_result' = <<"raised", "ValueError">>
            /\ UNCHANGED s_trace
       ELSE IF UsesCache(s_getter)
       THEN /\ s_trace' = Append(s_trace, "cache.get")
            /\ IF s_cached
               THEN s_pc' = "ended" /\ s_result' = <<"returned", "cached">>
               ELSE s_pc' = "attempt" /\ UNCHANGED s_result
       ELSE /\ s_pc' = "attempt"
            /\ UNCHANGED <<s_trace, s_result>>
    /\ UNCHANGED <<s_getter, s_valid, s_code, s_cached, s_attempts>>
    /\ SourceOnly

\* one pass through _request and tenacity's decision on it; after the pass
\* that returns, get_or_fetch stores the value
SrcAttempt ==
    /\ s_pc = "attempt"
    /\ \E o \in AttemptOutcomes :
          /\ s_attempts' = s_attempts + 1
          /\ IF o = "ok"
             THEN /\ s_pc' = "ended"
                  /\ s_result' = <<"returned", "fetched">>
                  /\ s_trace' = s_trace \o AttemptEvents(UsesRealallLimiter(s_getter))
                                  \o (IF UsesCache(s_getter) THEN <<"cache.set">> ELSE << >>)
                  /\ s_cached' = (s_cached \/ UsesCache(s_getter))
             ELSE /\ s_trace' = s_trace \o AttemptEvents(UsesRealallLimiter(s_getter))
                  /\ UNCHANGED s_cached
                  /\ IF ~retry_if_exception_type(o) \/ stop_after_attempt(s_attempts + 1)
                     THEN s_pc' = "ended" /\ s_result' = <<"raised", o>>
                     ELSE s_pc' = "backoff" /\ UNCHANGED s_result
    /\ UNCHANGED <<s_getter, s_valid, s_code>>
    /\ SourceOnly

\* the backoff sleep is over
SrcBackoffDone ==
    /\ s_pc = "backoff"
    /\ s_pc' = "attempt"
    /\ UNCHANGED <<s_getter, s_valid, s_code, s_cached, s_attempts, s_trace, s_result>>
    /\ SourceOnly

-----------------------------------------------------------------------------
(* engine/finance_risk.py: analyze_financials *)
(* Amounts are integers in tenths of 1e8 yuan (3e8 = 30).  A report date is  *)
(* the integer yyyymmdd, 0 for a row without a date.  A row carries the      *)
(* values _extract_field finds in it: << >> for None, else <<value>>.        *)

LOSS_THRESHOLD          == 30
REVENUE_THRESHOLD_MAIN  == 30
REVENUE_THRESHOLD_SMALL == 10
SCAN_YEARS              == 3

Row(date, np, rev) == [date |-> date, net_profit |-> np, revenue |-> rev]

\* date_str.endswith("12-31") or date_str.endswith("1231")
_is_annual_report(date) == date % 10000 = 1231

\* sorted(data, key=lambda r: _extract_date(r), reverse=True): stable
RECURSIVE InsertDesc(_, _)
InsertDesc(row, sorted) ==
    IF sorted = << >> THEN <<row>>
    ELSE IF Head(sorted).date >= row.date
         THEN <<Head(sorted)>> \o InsertDesc(row, Tail(sorted))
         ELSE <<row>> \o sorted

RECURSIVE SortedDesc(_)
SortedDesc(data) ==
    IF data = << >> THEN << >>
    ELSE InsertDesc(data[Len(data)], SortedDesc(SubSeq(data, 1, Len(data) - 1)))

\* rows sorted by date, newest first, the annual ones kept
AnnualReports(data) == SelectSeq(SortedDesc(data), LAMBDA r : _is_annual_report(r.date))

\* annual_reports[:SCAN_YEARS]
Take(seq, n) == SubSeq(seq, 1, IF Len(seq) < n THEN Len(seq) ELSE n)

Abs(x) == IF x < 0 THEN -x ELSE x

\* the loop of Rule-1: [years, loss] over the leading run of negative profits
RECURSIVE LossRun(_)
LossRun(reports) ==
    IF reports = << >> THEN [years |-> 0, loss |-> 0]
    ELSE LET np == Head(reports).net_profit
         IN  IF np # << >> /\ np[1] < 0
             THEN LET rest == LossRun(Tail(reports))
                  IN  [years |-> rest.years + 1, loss |-> rest.loss + Abs(np[1])]
             ELSE [years |-> 0, loss |-> 0]

ConsecutiveLoss_at_threshold(run) == run.years >= 2 /\ run.loss >= LOSS_THRESHOLD

\* if loss_years >= 2 and cumulative_loss > LOSS_THRESHOLD
ConsecutiveLoss(run) == run.years >= 2 /\ run.loss > LOSS_THRESHOLD

StartsWith(str, prefix) ==
    Len(str) >= Len(prefix) /\ SubSeq(str, 1, Len(prefix)) = prefix

_get_revenue_threshold(code) ==
    LET pure == PureCode(code)
    IN  IF StartsWith(pure, <<"3", "0", "0">>) \/ StartsWith(pure, <<"3", "0", "1">>)
        THEN REVENUE_THRESHOLD_SMALL
        ELSE IF StartsWith(pure, <<"6", "8", "8">>) THEN REVENUE_THRESHOLD_SMALL
        ELSE IF StartsWith(pure, <<"4">>) \/ StartsWith(pure, <<"8">>)
        THEN REVENUE_THRESHOLD_SMALL
        ELSE REVENUE_THRESHOLD_MAIN

LowRevenue_any_board(rev_threshold, latest_revenue, latest_net_profit) ==
    /\ latest_revenue # << >>
    /\ \/ 0 < latest_revenue[1] /\ latest_revenue[1] < rev_threshold
       \/ latest_revenue[1] = 0

\* Rule-2, given the latest annual report's revenue and net profit
LowRevenue(rev_threshold, latest_revenue, latest_net_profit) ==
    /\ latest_revenue # << >>
    /\ LET is_loss == latest_net_profit < 0
       IN  \/ /\ rev_threshold = REVENUE_THRESHOLD_MAIN
              /\ 0 < latest_revenue[1] /\ latest_revenue[1] < rev_threshold /\ is_loss
           \/ /\ rev_threshold # REVENUE_THRESHOLD_MAIN
              /\ 0 < latest_revenue[1] /\ latest_revenue[1] < rev_threshold
           \/ latest_revenue[1] = 0

\* risk_type = "both" if len(risks) == 2 else (risks[0] if risks else "")
RiskType(risks) ==
    IF Len(risks) = 2 THEN "both" ELSE IF risks # << >> THEN risks[1] ELSE ""

NoRisk ==
    [risks |-> << >>, risk_type |-> "", loss_years |-> 0, cumulative_loss |-> 0,
     latest_revenue |-> <<0>>, latest_net_profit |-> 0]

analyze_financials(data, code) ==
    IF data = << >> THEN NoRisk
    ELSE
    LET annual_reports == AnnualReports(data)
        latest_net_profit ==
            IF annual_reports # << >> /\ annual_reports[1].net_profit # << >>
            THEN annual_reports[1].net_profit[1] ELSE 0
        run == LossRun(Take(annual_reports, SCAN_YEARS))
        latest_revenue ==
            IF annual_reports # << >> THEN annual_reports[1].revenue ELSE <<0>>
        risks ==
            (IF annual_reports # << >> /\ ConsecutiveLoss(run)
             THEN <<"consecutive_loss">> ELSE << >>)
            \o (IF annual_reports # << >>
                   /\ LowRevenue(_get_revenue_threshold(code), latest_revenue,
                                 latest_net_profit)
                THEN <<"low_revenue">> ELSE << >>)
    IN  [risks |-> risks, risk_type |-> RiskType(risks),
         loss_years |-> run.years, cumulative_loss |-> run.loss,
         latest_revenue |-> latest_revenue, latest_net_profit |-> latest_net_profit]

-----------------------------------------------------------------------------
(* analyze_financials as a state machine: rows and a code are given *)

\* each option is << >> (the report is missing) or <<row>>
LatestReport ==
    { << >> } \cup
    { <<Row(20231231, np, rev)>> :
        np \in {<< >>, <<-20>>, <<-15>>, <<5>>},
        rev \in {<< >>, <<0>>, <<5>>, <<10>>, <<29>>, <<30>>} }

OlderReport(date) ==
    { << >> } \cup { <<Row(date, np, <<0>>)>> : np \in {<< >>, <<-15>>, <<-10>>, <<5>>} }

OldestReport == { << >>, <<Row(20201231, <<-20>>, <<0>>)>> }

InterimReport == { << >>, <<Row(20240630, <<-50>>, <<0>>)>> }

RECURSIVE Reversed(_)
Reversed(seq) == IF seq = << >> THEN << >> ELSE Reversed(Tail(seq)) \o <<Head(seq)>>

\* what the cwzb endpoint returns for one stock, newest first or oldest first
FinancialData ==
    LET newest_first ==
            { i \o r1 \o r2 \o r3 \o r4 :
                i \in InterimReport, r1 \in LatestReport, r2 \in OlderReport(20221231),
                r3 \in OlderReport(20211231), r4 \in OldestReport }
    IN  newest_first \cup { Reversed(d) : d \in newest_first }

AnalyzeCodes ==
    { Code_600519_SH, Code_000002, Code_300750_SZ, Code_688001_SH, Code_430047_BJ,
      <<"3", "0", "1", "0", "0", "1", ".", "S", "Z">>,
      <<"8", "3", "0", "0", "0", "1", ".", "B", "J">> }

NoOut == [risks |-> <<"not called">>]

AnalyzeInit ==
    /\ a_data \in FinancialData
    /\ a_code \in AnalyzeCodes
    /\ a_out = NoOut

AnalyzeIdle ==
    /\ a_data = << >>
    /\ a_code = Code_600519_SH
    /\ a_out = NoOut

\* a call of analyze_financials(data, code)
Analyze ==
    /\ a_out = NoOut
    /\ a_out' = analyze_financials(a_data, a_code)
    /\ UNCHANGED <<a_data, a_code>>
    /\ AnalyzeOnly

-----------------------------------------------------------------------------
(* engine/finance_risk.py: scan_all_stocks and deep_scan_flagged *)

MAX_CONCURRENT  == 10
DeepBatchSize   == 30

\* _scan_one: <<"error">> when it raises, <<"none">> for None, else <<"ok", res>>
_scan_one_swallowing(payload, code) ==
    IF payload.kind \in {"raise", "none"} \/ payload.items = << >> THEN <<"none">>
    ELSE <<"ok", analyze_financials(payload.items, code)>>

_scan_one(payload, code) ==
    IF payload.kind = "raise" THEN <<"error">>
    ELSE IF payload.kind = "none" \/ payload.items = << >> THEN <<"none">>
    ELSE <<"ok", analyze_financials(payload.items, code)>>

\* _analyze_income_for_loss
_analyze_income_for_loss(data) ==
    LET annual == SelectSeq(data, LAMBDA r : _is_annual_report(r.date)
                                              /\ r.net_profit # << >>)
        run    == LossRun(Take(SortedDesc(annual), SCAN_YEARS))
    IN  [consecutive_loss_years |-> run.years, cumulative_loss |-> run.loss,
         is_extreme |-> run.years >= 3]

\* _deep_one
_deep_one(payload) ==
    IF payload.kind = "raise" THEN <<"error">>
    ELSE IF payload.kind # "list" \/ payload.items = << >> THEN <<"none">>
    ELSE <<"ok", _analyze_income_for_loss(payload.items)>>

\* FinancialRisk(code=..., risk_type=res["risk_type"], ...)
FinancialRisk(code, res, scan_date) ==
    [code |-> code, risk_type |-> res.risk_type, loss_years |-> res.loss_years,
     cumulative_loss |-> res.cumulative_loss, latest_revenue |-> res.latest_revenue,
     is_extreme_risk |-> 0, scan_date |-> scan_date]

\* the loop over zip(batch, results) of scan_all_stocks, from index lo to hi
RECURSIVE ScanResults(_, _, _)
ScanResults(stocks, lo, hi) ==
    IF lo > hi THEN [flagged |-> << >>, errors |-> 0]
    ELSE LET res  == _scan_one(stocks[lo].cwzb, stocks[lo].code)
             rest == ScanResults(stocks, lo + 1, hi)
         IN  IF res[1] = "error"
             THEN [flagged |-> rest.flagged, errors |-> rest.errors + 1]
             ELSE IF res[1] = "ok" /\ res[2].risks # << >>
             THEN [flagged |-> <<FinancialRisk(stocks[lo].code, res[2], "today")>>
                                 \o rest.flagged,
                   errors |-> rest.errors]
             ELSE rest

\* new_type = "both" if old_type == "low_revenue" else "consecutive_loss"
new_type(old_type) == IF old_type = "low_revenue" THEN "both" ELSE "consecutive_loss"

\* the UPDATE deep_scan_flagged makes to one row for a result res
DeepUpdate(row, res) ==
    [row EXCEPT !.is_extreme_risk = IF res.is_extreme THEN 1 ELSE 0,
                !.loss_years = res.consecutive_loss_years,
                !.cumulative_loss = res.cumulative_loss,
                !.risk_type = IF res.is_extreme THEN new_type(row.risk_type)
                              ELSE row.risk_type]

\* the payload of /hs/fin/income for a code: that of the stock with this code
IncomeOf(stocks, code) ==
    LET hits == {k \in DOMAIN stocks : stocks[k].code = code}
    IN  IF hits = {} THEN NonePayload ELSE stocks[CHOOSE k \in hits : TRUE].income

\* the loop over zip(batch, results) of deep_scan_flagged, from row lo to hi:
\* the table and the counters after it
RECURSIVE DeepResults(_, _, _, _, _)
DeepResults(table, count, stocks, lo, hi) ==
    IF lo > hi THEN [table |-> table, count |-> count]
    ELSE LET res == _deep_one(IncomeOf(stocks, table[lo].code))
         IN  IF res[1] = "error"
             THEN DeepResults(table, [count EXCEPT !.errors = @ + 1], stocks, lo + 1, hi)
             ELSE IF res[1] = "none"
             THEN DeepResults(table, count, stocks, lo + 1, hi)
             ELSE DeepResults([table EXCEPT ![lo] = DeepUpdate(@, res[2])],
                              [count EXCEPT !.updated = @ + 1,
                                            !.extreme_count =
                                                @ + IF res[2].is_extreme THEN 1 ELSE 0],
                              stocks, lo + 1, hi)

-----------------------------------------------------------------------------
(* the risk scan as a process: scan_all_stocks, then deep_scan_flagged *)

ScanStocks  == 3       \* stocks in the table when every answer of upstream is tried
ScanBatch   == 2       \* and the batch_size they are scanned with
BurstStocks == 13      \* stocks in the table when a batch exceeds MAX_CONCURRENT
BurstBatch  == 12      \* and the batch_size they are scanned with

ProfitRows     == <<Row(20231231, <<5>>, <<50>>)>>
BigLossRows    == <<Row(20231231, <<-20>>, <<50>>), Row(20221231, <<-15>>, <<50>>),
                    Row(20211231, <<-10>>, <<50>>)>>
SmallLossRows  == <<Row(20231231, <<-1>>, <<5>>), Row(20221231, <<-1>>, <<5>>),
                    Row(20211231, <<-1>>, <<5>>)>>
LowRevenueRows == <<Row(20231231, <<5>>, <<5>>)>>
BothRows       == <<Row(20231231, <<-20>>, <<29>>), Row(20221231, <<-15>>, <<50>>)>>

MainBoard   == <<"6", "0", "0">>
GrowthBoard3 == <<"3", "0", "0">>

\* what upstream answers for a stock: its cwzb payload and its income payload
Profiles ==
    { [board |-> MainBoard,    cwzb |-> Raised("TimeoutException"), income |-> NonePayload],
      [board |-> MainBoard,    cwzb |-> NonePayload,                income |-> NonePayload],
      [board |-> MainBoard,    cwzb |-> ListPayload(ProfitRows),
                               income |-> ListPayload(ProfitRows)],
      [board |-> MainBoard,    cwzb |-> DictPayload(BigLossRows),
                               income |-> ListPayload(BigLossRows)],
      [board |-> MainBoard,    cwzb |-> ListPayload(BothRows),
                               income |-> ListPayload(BigLossRows)],
      [board |-> GrowthBoard3, cwzb |-> ListPayload(SmallLossRows),
                               income |-> ListPayload(SmallLossRows)],
      [board |-> GrowthBoard3, cwzb |-> ListPayload(LowRevenueRows),
                               income |-> ListPayload(LowRevenueRows)],
      [board |-> GrowthBoard3, cwzb |-> ListPayload(LowRevenueRows),
                               income |-> Raised("RuntimeError")],
      [board |-> GrowthBoard3, cwzb |-> ListPayload(LowRevenueRows),
                               income |-> ListPayload(<< >>)] }

DigitChars == <<"0", "1", "2", "3", "4", "5", "6", "7", "8", "9">>

\* the k-th stock of the table: a code of the profile's board, and the answers
Stock(k, profile) ==
    [code   |-> profile.board \o <<"0", DigitChars[(k \div 10) + 1], DigitChars[(k % 10) + 1]>>,
     cwzb   |-> profile.cwzb,
     income |-> profile.income]

\* rows a previous scan left in financial_risk
StaleTables ==
    { << >>,
      <<[code |-> MainBoard \o <<"9", "9", "9">>, risk_type |-> "consecutive_loss",
         loss_years |-> 2, cumulative_loss |-> 40, latest_revenue |-> <<50>>,
         is_extreme_risk |-> 0, scan_date |-> "previous"]>>,
      <<[code |-> GrowthBoard3 \o <<"0", "0", "1">>, risk_type |-> "low_revenue",
         loss_years |-> 0, cumulative_loss |-> 0, latest_revenue |-> <<5>>,
         is_extreme_risk |-> 0, scan_date |-> "previous"]>> }

NoCount == [scanned |-> 0, errors |-> 0, updated |-> 0, extreme_count |-> 0]

ScanInitWith(stocks, batch_size) ==
    /\ fs_stocks = stocks
    /\ fs_batch_size = batch_size
    /\ fs_table \in StaleTables
    /\ fs_pc = "idle"
    /\ fs_i = 0
    /\ fs_rows = << >>
    /\ fs_task = [k \in DOMAIN stocks |-> "none"]
    /\ fs_flagged = << >>
    /\ fs_count = NoCount
    /\ fs_stats = << >>
    /\ fs_history = [delays |-> 0, commits |-> 0, deleted |-> 0]

\* every answer of upstream for each of a few stocks
ScanInit ==
    \E n \in 0 .. ScanStocks :
        \E profiles \in [1 .. n -> Profiles] :
            ScanInitWith([k \in 1 .. n |-> Stock(k, profiles[k])], ScanBatch)

\* many flagged stocks, one of them failing, in a batch larger than MAX_CONCURRENT
BurstInit ==
    \E low \in {p \in Profiles : p.cwzb = ListPayload(SmallLossRows)},
       bad \in {p \in Profiles : p.cwzb.kind = "raise"} :
        ScanInitWith([k \in 1 .. BurstStocks |-> Stock(k, IF k = 2 THEN bad ELSE low)],
                     BurstBatch)

ScanIdle ==
    /\ fs_stocks = << >>
    /\ fs_batch_size = 1
    /\ fs_table = << >>
    /\ fs_pc = "idle"
    /\ fs_i = 0
    /\ fs_rows = << >>
    /\ fs_task = << >>
    /\ fs_flagged = << >>
    /\ fs_count = NoCount
    /\ fs_stats = << >>
    /\ fs_history = [delays |-> 0, commits |-> 0, deleted |-> 0]

\* the indices of the batch that starts after index i
BatchRange(i, size, total) == (i + 1) .. Min(i + size, total)

TasksIn(status) == {k \in DOMAIN fs_task : fs_task[k] = status}

\* scan_all_stocks is called: the stocks are read, the counters start at zero
ScanStart ==
    /\ fs_pc = "idle"
    /\ fs_pc' = "scan_loop"
    /\ fs_i' = 0
    /\ fs_flagged' = << >>
    /\ fs_count' = NoCount
    /\ UNCHANGED <<fs_stocks, fs_batch_size, fs_table, fs_rows, fs_task, fs_stats, fs_history>>
    /\ ScanOnly

\* for i in range(0, total, batch_size): the tasks of the batch are created
ScanBatchStart ==
    /\ fs_pc = "scan_loop"
    /\ fs_i < Len(fs_stocks)
    /\ fs_task' = [k \in DOMAIN fs_task |->
                      IF k \in BatchRange(fs_i, fs_batch_size, Len(fs_stocks))
                      THEN "queued" ELSE fs_task[k]]
    /\ fs_pc' = "scan_gather"
    /\ UNCHANGED <<fs_stocks, fs_batch_size, fs_table, fs_i, fs_rows, fs_flagged, fs_count,
                   fs_stats, fs_history>>
    /\ ScanOnly

\* async with semaphore: the oldest waiting task enters when a slot is free
TaskAdmit_unbounded ==
    /\ fs_pc \in {"scan_gather", "deep_gather"}
    /\ TasksIn("queued") # {}
    /\ LET t == CHOOSE k \in TasksIn("queued") : \A j \in TasksIn("queued") : k <= j
       IN  fs_task' = [fs_task EXCEPT ![t] = "fetching"]
    /\ UNCHANGED <<fs_stocks, fs_batch_size, fs_table, fs_pc, fs_i, fs_rows, fs_flagged,
                   fs_count, fs_stats, fs_history>>
    /\ ScanOnly

TaskAdmit ==
    /\ fs_pc \in {"scan_gather", "deep_gather"}
    /\ TasksIn("queued") # {}
    /\ Cardinality(TasksIn("fetching")) < MAX_CONCURRENT
    /\ LET t == CHOOSE k \in TasksIn("queued") : \A j \in TasksIn("queued") : k <= j
       IN  fs_task' = [fs_task EXCEPT ![t] = "fetching"]
    /\ UNCHANGED <<fs_stocks, fs_batch_size, fs_table, fs_pc, fs_i, fs_rows, fs_flagged,
                   fs_count, fs_stats, fs_history>>
    /\ ScanOnly

\* a fetch returns or raises, its task ends and releases the semaphore
TaskFinish(t) ==
    /\ fs_pc \in {"scan_gather", "deep_gather"}
    /\ fs_task[t] = "fetching"
    /\ fs_task' = [fs_task EXCEPT ![t] = "finished"]
    /\ UNCHANGED <<fs_stocks, fs_batch_size, fs_table, fs_pc, fs_i, fs_rows, fs_flagged,
                   fs_count, fs_stats, fs_history>>
    /\ ScanOnly

\* gather returns when every task of the batch has ended; the results are read
ScanCollect ==
    /\ fs_pc = "scan_gather"
    /\ \A k \in BatchRange(fs_i, fs_batch_size, Len(fs_stocks)) : fs_task[k] = "finished"
    /\ LET batch == BatchRange(fs_i, fs_batch_size, Len(fs_stocks))
           hi    == Min(fs_i + fs_batch_size, Len(fs_stocks))
           res   == ScanResults(fs_stocks, fs_i + 1, hi)
       IN  /\ fs_count' = [fs_count EXCEPT !.scanned = @ + Cardinality(batch),
                                           !.errors = @ + res.errors]
           /\ fs_flagged' = fs_flagged \o res.flagged
    /\ fs_pc' = "scan_delay"
    /\ UNCHANGED <<fs_stocks, fs_batch_size, fs_table, fs_i, fs_rows, fs_task, fs_stats,
                   fs_history>>
    /\ ScanOnly

\* await asyncio.sleep(BATCH_DELAY), then the next i of the range
ScanDelay ==
    /\ fs_pc = "scan_delay"
    /\ fs_history' = [fs_history EXCEPT !.delays = @ + 1]
    /\ fs_i' = fs_i + fs_batch_size
    /\ fs_pc' = "scan_loop"
    /\ UNCHANGED <<fs_stocks, fs_batch_size, fs_table, fs_rows, fs_task, fs_flagged, fs_count,
                   fs_stats>>
    /\ ScanOnly

\* delete(FinancialRisk), add_all(flagged), commit; the stats are returned
ScanWrite_merging ==
    /\ fs_pc = "scan_loop"
    /\ fs_i >= Len(fs_stocks)
    /\ fs_table' = fs_table \o fs_flagged
    /\ fs_history' = [fs_history EXCEPT !.commits = @ + 1]
    /\ fs_stats' = <<[total_stocks |-> Len(fs_stocks), scanned |-> fs_count.scanned,
                      flagged |-> Len(fs_flagged), errors |-> fs_count.errors]>>
    /\ fs_pc' = "scan_done"
    /\ UNCHANGED <<fs_stocks, fs_batch_size, fs_i, fs_rows, fs_task, fs_flagged, fs_count>>
    /\ ScanOnly

ScanWrite ==
    /\ fs_pc = "scan_loop"
    /\ fs_i >= Len(fs_stocks)
    /\ fs_table' = fs_flagged
    /\ fs_history' = [fs_history EXCEPT !.commits = @ + 1, !.deleted = Len(fs_table)]
    /\ fs_stats' = <<[total_stocks |-> Len(fs_stocks), scanned |-> fs_count.scanned,
                      flagged |-> Len(fs_flagged), errors |-> fs_count.errors]>>
    /\ fs_pc' = "scan_done"
    /\ UNCHANGED <<fs_stocks, fs_batch_size, fs_i, fs_rows, fs_task, fs_flagged, fs_count>>
    /\ ScanOnly

\* deep_scan_flagged is called: the rows of financial_risk are read
DeepStart ==
    /\ fs_pc = "scan_done"
    /\ fs_rows' = [k \in DOMAIN fs_table |-> fs_table[k].code]
    /\ fs_task' = [k \in DOMAIN fs_table |-> "none"]
    /\ fs_i' = 0
    /\ fs_count' = NoCount
    /\ fs_pc' = "deep_loop"
    /\ UNCHANGED <<fs_stocks, fs_batch_size, fs_table, fs_flagged, fs_stats, fs_history>>
    /\ ScanOnly

\* for i in range(0, total, 30): the tasks of the batch are created
DeepBatchStart ==
    /\ fs_pc = "deep_loop"
    /\ fs_i < Len(fs_rows)
    /\ fs_task' = [k \in DOMAIN fs_task |->
                      IF k \in BatchRange(fs_i, DeepBatchSize, Len(fs_rows))
                      THEN "queued" ELSE fs_task[k]]
    /\ fs_pc' = "deep_gather"
    /\ UNCHANGED <<fs_stocks, fs_batch_size, fs_table, fs_i, fs_rows, fs_flagged, fs_count,
                   fs_stats, fs_history>>
    /\ ScanOnly

\* gather returns; the rows of the batch are updated and committed
DeepCollect ==
    /\ fs_pc = "deep_gather"
    /\ \A k \in BatchRange(fs_i, DeepBatchSize, Len(fs_rows)) : fs_task[k] = "finished"
    /\ LET hi  == Min(fs_i + DeepBatchSize, Len(fs_rows))
           res == DeepResults(fs_table, fs_count, fs_stocks, fs_i + 1, hi)
       IN  /\ fs_table' = res.table
           /\ fs_count' = res.count
    /\ fs_history' = [fs_history EXCEPT !.commits = @ + 1]
    /\ fs_pc' = "deep_delay"
    /\ UNCHANGED <<fs_stocks, fs_batch_size, fs_i, fs_rows, fs_task, fs_flagged, fs_stats>>
    /\ ScanOnly

\* await asyncio.sleep(BATCH_DELAY), then the next i of the range
DeepDelay ==
    /\ fs_pc = "deep_delay"
    /\ fs_history' = [fs_history EXCEPT !.delays = @ + 1]
    /\ fs_i' = fs_i + DeepBatchSize
    /\ fs_pc' = "deep_loop"
    /\ UNCHANGED <<fs_stocks, fs_batch_size, fs_table, fs_rows, fs_task, fs_flagged, fs_count,
                   fs_stats>>
    /\ ScanOnly

\* the stats of deep_scan_flagged are returned
DeepFinish ==
    /\ fs_pc = "deep_loop"
    /\ fs_i >= Len(fs_rows)
    /\ fs_stats' = <<[total_scanned |-> Len(fs_rows), updated |-> fs_count.updated,
                      extreme_risk_count |-> fs_count.extreme_count,
                      errors |-> fs_count.errors]>>
    /\ fs_pc' = "deep_done"
    /\ UNCHANGED <<fs_stocks, fs_batch_size, fs_table, fs_i, fs_rows, fs_task, fs_flagged,
                   fs_count, fs_history>>
    /\ ScanOnly

-----------------------------------------------------------------------------
(* data/source_zhitu.py: callers of _request, the limiters and the retries together *)

RetryInit ==
    /\ q_pc = [c \in Callers |-> "idle"]
    /\ q_realall \in [Callers -> BOOLEAN]
    /\ q_wake = [c \in Callers |-> 0]
    /\ q_trace = [c \in Callers |-> << >>]
    /\ q_sent = << >>

RetryIdle ==
    /\ q_pc = [c \in Callers |-> "idle"]
    /\ q_realall = [c \in Callers |-> FALSE]
    /\ q_wake = [c \in Callers |-> 0]
    /\ q_trace = [c \in Callers |-> << >>]
    /\ q_sent = << >>

\* the model follows MaxAcquires passes through the body of _request
MorePasses ==
    Len(q_sent) + Cardinality({x \in Callers : q_pc[x] \in {"attempt", "realall", "acquiring"}})
        < MaxAcquires

\* the number of passes through the body that reached client.get
AttemptNumber(c) ==
    Cardinality({i \in 1 .. Len(q_trace[c]) : q_trace[c][i] = "client.get"})

\* a getter calls self._request(...): tenacity runs the body for the first time
RtStart(c) ==
    /\ q_pc[c] = "idle"
    /\ MorePasses
    /\ q_pc' = [q_pc EXCEPT ![c] = "attempt"]
    /\ UNCHANGED <<q_realall, q_wake, q_trace, q_sent>>
    /\ UNCHANGED <<now, limiterVars, singleVars>>
    /\ RetryOnly

\* if use_realall_limiter: await self._realall_limiter.acquire()
RtRealall(c) ==
    /\ q_pc[c] = "attempt"
    /\ q_realall[c]
    /\ sc_pc[c] = "idle"
    /\ sc_pc' = [sc_pc EXCEPT ![c] = "waiting"]
    /\ q_pc' = [q_pc EXCEPT ![c] = "realall"]
    /\ q_trace' = [q_trace EXCEPT ![c] = Append(@, "realall_limiter.acquire")]
    /\ UNCHANGED <<q_realall, q_wake, q_sent>>
    /\ UNCHANGED <<sc_cooldown, sc_last_call, sc_lock, sc_wake, sc_completions>>
    /\ UNCHANGED <<now, limiterVars>>
    /\ RetryOnly

\* await self._general_limiter.acquire()
RtAcquire(c) ==
    /\ \/ q_pc[c] = "attempt" /\ ~q_realall[c]
       \/ q_pc[c] = "realall" /\ sc_pc[c] = "done"
    /\ rl_pc[c] = "idle"
    /\ rl_pc' = [rl_pc EXCEPT ![c] = "waiting"]
    /\ sc_pc' = [sc_pc EXCEPT ![c] = "idle"]
    /\ q_pc' = [q_pc EXCEPT ![c] = "acquiring"]
    /\ q_trace' = [q_trace EXCEPT ![c] = Append(@, "general_limiter.acquire")]
    /\ UNCHANGED <<q_realall, q_wake, q_sent>>
    /\ UNCHANGED <<sc_cooldown, sc_last_call, sc_lock, sc_wake, sc_completions>>
    /\ UNCHANGED <<now, rl_max, rl_window, timestamps, rl_lock, rl_wake, completions>>
    /\ RetryOnly

\* acquire() has returned: client.get sends the request, and the pass ends in
\* the data, in an error tenacity re-raises, or in an error it retries after
\* wait_exponential
RtSend(c) ==
    /\ q_pc[c] = "acquiring"
    /\ rl_pc[c] = "done"
    /\ rl_pc' = [rl_pc EXCEPT ![c] = "idle"]
    /\ q_trace' = [q_trace EXCEPT ![c] = Append(@, "client.get")]
    /\ q_sent' = Append(q_sent, now)
    /\ \E outcome \in AttemptOutcomes :
           LET attempt_number == AttemptNumber(c) + 1
           IN  IF outcome = "ok"
               THEN q_pc' = [q_pc EXCEPT ![c] = "returned"] /\ UNCHANGED q_wake
               ELSE IF ~retry_if_exception_type(outcome) \/ stop_after_attempt(attempt_number)
               THEN q_pc' = [q_pc EXCEPT ![c] = "raised"] /\ UNCHANGED q_wake
               ELSE /\ q_pc' = [q_pc EXCEPT ![c] = "backoff"]
                    /\ q_wake' = [q_wake EXCEPT ![c] = now + wait_exponential(attempt_number)]
    /\ UNCHANGED q_realall
    /\ UNCHANGED <<now, rl_max, rl_window, timestamps, rl_lock, rl_wake, completions>>
    /\ UNCHANGED singleVars
    /\ RetryOnly

RtBackoffDone_keeping_permit(c) ==
    /\ q_pc[c] = "backoff"
    /\ now >= q_wake[c]
    /\ MorePasses
    /\ q_pc' = [q_pc EXCEPT ![c] = "acquiring"]
    /\ rl_pc' = [rl_pc EXCEPT ![c] = "done"]
    /\ UNCHANGED <<q_realall, q_wake, q_trace, q_sent>>
    /\ UNCHANGED <<now, rl_max, rl_window, timestamps, rl_lock, rl_wake, completions>>
    /\ UNCHANGED singleVars
    /\ RetryOnly

\* tenacity's sleep is over: the decorated body runs again from its first line
RtBackoffDone(c) ==
    /\ q_pc[c] = "backoff"
    /\ now >= q_wake[c]
    /\ MorePasses
    /\ q_pc' = [q_pc EXCEPT ![c] = "attempt"]
    /\ UNCHANGED <<q_realall, q_wake, q_trace, q_sent>>
    /\ UNCHANGED <<now, limiterVars, singleVars>>
    /\ RetryOnly

\* time passes while callers are suspended; a caller whose acquire() has
\* returned runs on to its next call without yielding to the event loop
RtTick ==
    /\ \A c \in Callers : rl_pc[c] # "done" /\ sc_pc[c] # "done"
    /\ \/ now < MaxTime
       \/ \E c \in Callers : \/ rl_pc[c] = "sleeping" /\ rl_wake[c] > now
                             \/ sc_pc[c] = "sleeping" /\ sc_wake[c] > now
                             \/ q_pc[c] = "backoff" /\ q_wake[c] > now
    /\ now' = now + 1
    /\ UNCHANGED <<limiterVars, singleVars, retryVars>>
    /\ RetryOnly

-----------------------------------------------------------------------------
(* Specifications *)

SpecTimingInit ==
    TimingInit /\ GuardIdle /\ PipeIdle /\ now = 0 /\ LimiterIdle /\ CacheIdle /\ RequestIdle /\ SourceIdle /\ SingleIdle /\ AnalyzeIdle /\ ScanIdle /\ RetryIdle

SpecTimingNext ==
    \/ Evaluate
    \/ FuturesSettlementDay
    \/ OptionsSettlementDay

SpecTiming == SpecTimingInit /\ [][SpecTimingNext]_vars

SpecGuardInit ==
    /\ today \in GuardDates /\ holidays = {} /\ call = NoCall
    /\ g_signal = evaluate(today) /\ g_snap \in GuardSnaps /\ g_out = NoSignal
    /\ PipeIdle /\ now = 0 /\ LimiterIdle /\ CacheIdle /\ RequestIdle /\ SourceIdle /\ SingleIdle /\ AnalyzeIdle /\ ScanIdle /\ RetryIdle

SpecGuardNext ==
    \/ Confirm
    \/ ConfirmAgain

SpecGuard == SpecGuardInit /\ [][SpecGuardNext]_vars

SpecPipelineInit ==
    /\ today \in GuardDates /\ holidays = {} /\ call = NoCall
    /\ GuardIdle /\ PipeInit /\ now = 0 /\ LimiterIdle /\ CacheIdle /\ RequestIdle /\ SourceIdle /\ SingleIdle /\ AnalyzeIdle /\ ScanIdle /\ RetryIdle

SpecPipelineNext ==
    \/ PipeEvaluate
    \/ PipeFetchQuotes
    \/ PipeFetchZt
    \/ PipeFetchDt
    \/ PipeFetchZbAndConfirm

SpecPipeline == SpecPipelineInit /\ [][SpecPipelineNext]_vars

SpecLimiterInit ==
    TimingIdle /\ GuardIdle /\ PipeIdle /\ now = 0 /\ LimiterInit /\ CacheIdle /\ RequestIdle /\ SourceIdle /\ SingleIdle /\ AnalyzeIdle /\ ScanIdle /\ RetryIdle

SpecLimiterNext ==
    \/ \E c \in Callers : RlCall(c)
    \/ \E c \in Callers : RlEnter(c)
    \/ \E c \in Callers : RlWake(c)
    \/ \E c \in Callers : RlReturn(c)
    \/ RlTick

SpecLimiter == SpecLimiterInit /\ [][SpecLimiterNext]_vars

SpecCacheInit ==
    TimingIdle /\ GuardIdle /\ PipeIdle /\ now = 0 /\ LimiterIdle /\ CacheInit /\ RequestIdle /\ SourceIdle /\ SingleIdle /\ AnalyzeIdle /\ ScanIdle /\ RetryIdle

SpecCacheNext ==
    \/ \E c \in Calls, k \in Keys : CGet(c, k)
    \/ \E c \in Calls : CFetch(c)
    \/ \E c \in Calls : CFetchRaises(c)
    \/ \E c \in Calls : CSet(c)
    \/ \E c \in Calls : CDone(c)
    \/ \E k \in Keys : CInvalidate(k)
    \/ CClear
    \/ CTick

SpecCache == SpecCacheInit /\ [][SpecCacheNext]_vars

SpecRequestInit ==
    TimingIdle /\ GuardIdle /\ PipeIdle /\ now = 0 /\ LimiterIdle /\ CacheIdle /\ RequestInit /\ SourceIdle /\ SingleIdle /\ AnalyzeIdle /\ ScanIdle /\ RetryIdle

SpecRequestNext ==
    \/ RequestStart
    \/ RequestAttempt
    \/ RequestBackoffDone

SpecRequest == SpecRequestInit /\ [][SpecRequestNext]_vars

SpecSourceInit ==
    /\ TimingIdle /\ GuardIdle /\ PipeIdle /\ now = 0 /\ LimiterIdle /\ CacheIdle
    /\ RequestIdle /\ SourceInit /\ SingleIdle /\ AnalyzeIdle /\ ScanIdle /\ RetryIdle

SpecSourceNext ==
    \/ SrcCall
    \/ SrcAttempt
    \/ SrcBackoffDone

SpecSource == SpecSourceInit /\ [][SpecSourceNext]_vars

\* the limiter with time that advances and a lock that is granted to every
\* waiter in turn (asyncio.Lock wakes its waiters first in, first out)
SpecLimiterLiveNext ==
    \/ \E c \in Callers : RlCall(c)
    \/ \E c \in Callers : RlEnter(c)
    \/ \E c \in Callers : RlWake(c)
    \/ \E c \in Callers : RlReturn(c)
    \/ RlTick
    \/ RlSleepTick

SpecLimiterLive ==
    /\ SpecLimiterInit
    /\ [][SpecLimiterLiveNext]_vars
    /\ WF_vars(RlSleepTick)
    /\ \A c \in Callers : SF_vars(RlEnter(c)) /\ WF_vars(RlWake(c))

SpecSingleInit ==
    /\ TimingIdle /\ GuardIdle /\ PipeIdle /\ now = 0 /\ LimiterIdle /\ CacheIdle
    /\ RequestIdle /\ SourceIdle /\ SingleInit /\ AnalyzeIdle /\ ScanIdle /\ RetryIdle

SpecSingleNext ==
    \/ \E c \in Callers : ScCall(c)
    \/ \E c \in Callers : ScEnter(c)
    \/ \E c \in Callers : ScWake(c)
    \/ \E c \in Callers : ScReturn(c)
    \/ ScTick

SpecSingle == SpecSingleInit /\ [][SpecSingleNext]_vars

SpecAnalyzeInit ==
    /\ TimingIdle /\ GuardIdle /\ PipeIdle /\ now = 0 /\ LimiterIdle /\ CacheIdle
    /\ RequestIdle /\ SourceIdle /\ SingleIdle /\ AnalyzeInit /\ ScanIdle /\ RetryIdle

SpecAnalyzeNext ==
    \/ Analyze

SpecAnalyze == SpecAnalyzeInit /\ [][SpecAnalyzeNext]_vars

SpecScanInit ==
    /\ TimingIdle /\ GuardIdle /\ PipeIdle /\ now = 0 /\ LimiterIdle /\ CacheIdle
    /\ RequestIdle /\ SourceIdle /\ SingleIdle /\ AnalyzeIdle /\ ScanInit /\ RetryIdle

SpecScanNext ==
    \/ ScanStart
    \/ ScanBatchStart
    \/ TaskAdmit
    \/ \E t \in DOMAIN fs_task : TaskFinish(t)
    \/ ScanCollect
    \/ ScanDelay
    \/ ScanWrite
    \/ DeepStart
    \/ DeepBatchStart
    \/ DeepCollect
    \/ DeepDelay
    \/ DeepFinish

SpecScan == SpecScanInit /\ [][SpecScanNext]_vars

SpecScanBurstInit ==
    /\ TimingIdle /\ GuardIdle /\ PipeIdle /\ now = 0 /\ LimiterIdle /\ CacheIdle
    /\ RequestIdle /\ SourceIdle /\ SingleIdle /\ AnalyzeIdle /\ BurstInit /\ RetryIdle

SpecScanBurst == SpecScanBurstInit /\ [][SpecScanNext]_vars

\* evaluate on any date of the year under any closure block, then confirm
\* with a calm, a crashing and a weak market
SignalSnaps == {MarketSnapshot(0, 2, 0, 0, 0, 0, 0), ScenarioD, ScenarioE}

SpecSignalsInit ==
    /\ TimingInit
    /\ g_signal = evaluate(today) /\ g_snap \in SignalSnaps /\ g_out = NoSignal
    /\ PipeIdle /\ now = 0 /\ LimiterIdle /\ CacheIdle /\ RequestIdle /\ SourceIdle /\ SingleIdle /\ AnalyzeIdle /\ ScanIdle /\ RetryIdle

SpecSignalsNext ==
    \/ Confirm
    \/ ConfirmAgain

SpecSignals == SpecSignalsInit /\ [][SpecSignalsNext]_vars

\* _nth_weekday_of_month called for each month of the year
SpecNthInit ==
    /\ today \in {Date(FirstYear, m, 1) : m \in 1 .. 12} /\ holidays = {} /\ call = NoCall
    /\ GuardIdle /\ PipeIdle /\ now = 0 /\ LimiterIdle /\ CacheIdle /\ RequestIdle /\ SourceIdle /\ SingleIdle /\ AnalyzeIdle /\ ScanIdle /\ RetryIdle

SpecNthNext ==
    \/ NthWeekdayOfMonth

SpecNth == SpecNthInit /\ [][SpecNthNext]_vars

SpecRetryInit ==
    TimingIdle /\ GuardIdle /\ PipeIdle /\ now = 0 /\ LimiterInit /\ CacheIdle /\ RequestIdle /\ SourceIdle /\ SingleInit /\ AnalyzeIdle /\ ScanIdle /\ RetryInit

SpecRetryNext ==
    \/ \E c \in Callers : RtStart(c)
    \/ \E c \in Callers : RtRealall(c)
    \/ \E c \in Callers : ScEnter(c)
    \/ \E c \in Callers : ScWake(c)
    \/ \E c \in Callers : RtAcquire(c)
    \/ \E c \in Callers : RlEnter(c)
    \/ \E c \in Callers : RlWake(c)
    \/ \E c \in Callers : RtSend(c)
    \/ \E c \in Callers : RtBackoffDone(c)
    \/ RtTick

SpecRetry == SpecRetryInit /\ [][SpecRetryNext]_vars

SpecRetreatInit ==
    TimingInit /\ GuardIdle /\ PipeIdle /\ now = 0 /\ LimiterIdle /\ CacheIdle /\ RequestIdle /\ SourceIdle /\ SingleIdle /\ AnalyzeIdle /\ ScanIdle /\ RetryIdle

SpecRetreatNext ==
    \/ SettlementWeekInfo
    \/ EvaluatePreRetreatDay

SpecRetreat == SpecRetreatInit /\ [][SpecRetreatNext]_vars

-----------------------------------------------------------------------------
(* Properties *)

\* the acquire() calls that completed in the interval [t, t + window_seconds)
CompletedIn(t) ==
    {i \in 1 .. Len(completions) : t <= completions[i] /\ completions[i] < t + rl_window}

\* C1: with any number of concurrent callers and any arrival times, no more
\* than max_requests acquire() calls complete within any rolling interval of
\* window_seconds (an interval [t, t + window_seconds))
C1_RateLimit == \A t \in 0 .. MaxTime : Cardinality(CompletedIn(t)) <= rl_max

\* a burst of max_requests + 1 calls at time 0: the last one slept and
\* completed exactly window_seconds after the first
C1_Witness ==
    /\ Len(completions) = rl_max + 1
    /\ \A i \in 1 .. rl_max : completions[i] = 0
    /\ completions[rl_max + 1] = rl_window
    /\ rl_max >= 2

InMarApr(d) == (MonthOf(d) = 3 /\ DayOf(d) >= 15) \/ MonthOf(d) = 4

\* C2: evaluate(d) returns a level in {0,1,2,3}; a date whose month/day lies
\* in [Mar 15, Apr 30] gets level 1, RED, FORCE_EMPTY whatever its weekday,
\* trading-day status or settlement-week position, and no other date gets level 1
C2_Level1 ==
    call.fn = "evaluate" =>
        /\ call.ret.level \in {0, 1, 2, 3}
        /\ InMarApr(today) =>
              /\ call.ret.level = 1
              /\ call.ret.light = "RED"
              /\ call.ret.action = "FORCE_EMPTY"
        /\ ~InMarApr(today) => call.ret.level # 1

\* a trading-day Tuesday of a settlement week inside the window, evaluated
C2_Witness ==
    /\ call.fn = "evaluate"
    /\ InMarApr(today)
    /\ is_trading_day(today)
    /\ Weekday(today) = 1
    /\ is_options_settlement_week(today)
    /\ call.ret.level = 1

CrashCondition(snap) ==
    \/ snap.index_change_pct <= -300
    \/ snap.limit_down_count >= 200
    \/ (snap.up_count > 0 /\ snap.down_count >= 3 * snap.up_count)

WarningCondition(snap) ==
    \/ snap.broken_rate >= 5000
    \/ (50 <= snap.limit_down_count /\ snap.limit_down_count < 200)

IsBlock(out)     == out.reason = <<"guard_block">>
IsDowngrade(out) == out.reason = <<"guard_downgrade">> /\ Head(out.details) # GuardNote
IsPass(out)      == out.details # << >> /\ Head(out.details) = GuardNote

UpstreamRaised == p_data # << >> /\ p_data[Len(p_data)].kind = "raise"

\* C4: when evaluate yields PROBE_ENTRY and an upstream call of the snapshot
\* raises, confirm is not applied and the result is the fail-safe signal
\* (level 99, RED, OBSERVE); the pipeline always returns a signal and never
\* lets the exception out
C4_FailSafe ==
    p_pc = "done" =>
        /\ ~p_raised
        /\ p_final # NoSignal
        /\ UpstreamRaised =>
              /\ p_signal.action = "PROBE_ENTRY"
              /\ p_final.level = 99
              /\ p_final.light = "RED"
              /\ p_final.action = "OBSERVE"
              /\ p_final.reason = <<"data_unavailable">>
              /\ p_snap = NoSnap

\* the route: quotes and the limit-up pool arrived, the limit-down pool timed out
C4_Witness ==
    /\ p_pc = "done"
    /\ p_entry = "route"
    /\ Len(p_data) = 3
    /\ p_data[3] = Raised("TimeoutException")
    /\ p_final.level = 99

Unavailable(r) == r.kind # "list" \/ r.items = << >>

InSettlementWeekOf(d, sd) == sd - Weekday(sd) <= d /\ d <= sd - Weekday(sd) + 4

InLevel2Dates(d) == (MonthOf(d) = 3 /\ DayOf(d) \in 5 .. 14) \/ MonthOf(d) = 12

\* C6: outside the level-1 and level-2 windows, evaluate(d) returns level 3,
\* GREEN, PROBE_ENTRY if and only if d is a trading-day Tuesday in the
\* Monday-Friday week of the futures or the options settlement day of d's month
C6_ProbeEntry ==
    (call.fn = "evaluate" /\ ~InMarApr(today) /\ ~InLevel2Dates(today)) =>
        ( (call.ret.level = 3 /\ call.ret.light = "GREEN" /\ call.ret.action = "PROBE_ENTRY")
          <=>
          /\ is_trading_day(today)
          /\ Weekday(today) = 1
          /\ \/ InSettlementWeekOf(today, futures_settlement_day(YearOf(today), MonthOf(today)))
             \/ InSettlementWeekOf(today, options_settlement_day(YearOf(today), MonthOf(today))) )

\* a Tuesday of the options settlement week only, evaluated to PROBE_ENTRY
C6_Witness ==
    /\ call.fn = "evaluate"
    /\ ~InMarApr(today) /\ ~InLevel2Dates(today)
    /\ Weekday(today) = 1
    /\ ~InSettlementWeekOf(today, futures_settlement_day(YearOf(today), MonthOf(today)))
    /\ InSettlementWeekOf(today, options_settlement_day(YearOf(today), MonthOf(today)))
    /\ call.ret.action = "PROBE_ENTRY"

\* C7: every date in [Mar 5, Mar 14] gets level 2, YELLOW, CLEAR_EXIT and every
\* date in December level 2, RED, REST, whatever the weekday, the trading-day
\* status or a coincident level-3 condition
C7_Level2 ==
    call.fn = "evaluate" =>
        /\ (MonthOf(today) = 3 /\ DayOf(today) \in 5 .. 14) =>
              (call.ret.level = 2 /\ call.ret.light = "YELLOW" /\ call.ret.action = "CLEAR_EXIT")
        /\ MonthOf(today) = 12 =>
              (call.ret.level = 2 /\ call.ret.light = "RED" /\ call.ret.action = "REST")

\* a trading Friday in [Mar 5, Mar 14] on which level 3 has a pre-retreat
\* signal, evaluated to level 2
C7_Witness ==
    /\ call.fn = "evaluate"
    /\ MonthOf(today) = 3 /\ DayOf(today) \in 5 .. 14
    /\ is_trading_day(today)
    /\ _check_level3(today) # NoSignal
    /\ _check_level3(today).action = "PRE_RETREAT"
    /\ call.ret.level = 2

\* the nominal day: the only day of the month on that weekday in that day range
NominalDay(year, month, weekday, days) ==
    CHOOSE o \in Date(year, month, 1) .. Date(year, month, DaysInMonth(year, month)) :
        Weekday(o) = weekday /\ DayOf(o) \in days

SettlementDayOk(ret, year, month, nominal) ==
    /\ is_trading_day(ret)
    /\ YearOf(ret) = year /\ MonthOf(ret) = month
    /\ DayOf(ret) \in 1 .. DaysInMonth(year, month)
    /\ ret <= nominal

\* C8: futures_settlement_day and options_settlement_day return a trading day
\* that lies inside the requested month and is not later than the nominal
\* 3rd Friday / 4th Wednesday
C8_SettlementDay ==
    /\ call.fn = "futures_settlement_day" =>
          SettlementDayOk(call.ret, call.arg[1], call.arg[2],
                          NominalDay(call.arg[1], call.arg[2], 4, 15 .. 21))
    /\ call.fn = "options_settlement_day" =>
          SettlementDayOk(call.ret, call.arg[1], call.arg[2],
                          NominalDay(call.arg[1], call.arg[2], 2, 22 .. 28))

\* the 3rd Friday and the four days before it are closed: the futures
\* settlement day is rolled back into the week before
C8_Witness ==
    /\ call.fn = "futures_settlement_day"
    /\ call.ret < NominalDay(call.arg[1], call.arg[2], 4, 15 .. 21) - 4

\* C9: once a get_or_fetch for a key has returned, a get_or_fetch for that key
\* made less than ttl seconds after the value was stored, with no invalidate
\* or clear in between, returns without invoking the fetcher, whatever value
\* the fetcher returned
C9_SecondCallHits ==
    \A c \in Calls : c_expect[c] => c_pc[c] \in {"idle", "returned"}

TransportRetryable == {"TimeoutException", "ConnectError", "ReadError"}

\* C10: a logical request makes at most 3 transport attempts; it is
\* re-attempted only after a timeout, connection or read error, and the third
\* such failure is re-raised; a business error ends the request at once
C10_RetryPolicy ==
    /\ r_attempts <= 3
    /\ Len(r_outcomes) = r_attempts
    /\ \A i \in 1 .. Len(r_outcomes) :
          /\ i < Len(r_outcomes) => r_outcomes[i] \in TransportRetryable
          /\ r_outcomes[i] = "RuntimeError" =>
                /\ i = Len(r_outcomes)
                /\ r_pc = "ended"
                /\ r_result = <<"raised", "RuntimeError">>
    /\ (r_attempts = 3 /\ r_outcomes[3] \in TransportRetryable) =>
          (r_pc = "ended" /\ r_result = <<"raised", r_outcomes[3]>>)
    /\ (r_pc = "ended" /\ r_outcomes[r_attempts] \in TransportRetryable) => r_attempts = 3

\* three transport failures in a row: the third is re-raised
C10_Witness ==
    /\ r_outcomes = <<"TimeoutException", "ConnectError", "ReadError">>
    /\ r_pc = "ended"
    /\ r_result = <<"raised", "ReadError">>

Precedes(tr, a, b, k) ==
    \E i \in 1 .. k - 1, j \in 1 .. k - 1 : i < j /\ tr[i] = a /\ tr[j] = b

C12_AcquireReturns ==
    \A c \in Callers : (rl_pc[c] = "waiting") ~> (rl_pc[c] = "done")

\* a caller found the window full at the last instant of free-running time,
\* slept past it and returned while the other caller was queued behind it
C12_Witness ==
    \E c \in Callers, d \in Callers :
        /\ c # d
        /\ rl_pc[c] = "done"
        /\ rl_wake[c] > MaxTime
        /\ now >= rl_wake[c]
        /\ rl_pc[d] = "waiting"


\* C13: any two completed SingleCallLimiter.acquire() calls are at least
\* cooldown_seconds apart, with concurrent callers and any burst
C13_CooldownSpacing ==
    \A i \in 1 .. Len(sc_completions), j \in 1 .. Len(sc_completions) :
        i < j => sc_completions[j] - sc_completions[i] >= sc_cooldown

\* a burst: both callers queued at once, the first passed without a sleep,
\* the second slept out the cooldown
C13_Witness ==
    /\ sc_cooldown = MaxCooldown
    /\ Len(sc_completions) = 2
    /\ \E c \in Callers, d \in Callers :
          c # d /\ sc_wake[c] = 0 /\ sc_wake[d] > 0 /\ sc_pc[c] = "done" /\ sc_pc[d] = "done"


\* the annual rows of a_data, by position; the report dates are distinct
AnnualRows == {i \in DOMAIN a_data : a_data[i].date % 10000 = 1231}

\* 1 for the most recent annual report, 2 for the one before, ...
Recency(i) == 1 + Cardinality({j \in AnnualRows : a_data[j].date > a_data[i].date})

IsLossYear(i) == a_data[i].net_profit # << >> /\ a_data[i].net_profit[1] < 0

\* n: the length of the maximal run of loss years that starts at the most
\* recent annual report, within the 3 most recent annual reports
LossRunLength ==
    CHOOSE n \in 0 .. 3 :
        /\ n <= Cardinality(AnnualRows)
        /\ \A i \in AnnualRows : Recency(i) <= n => IsLossYear(i)
        /\ \A m \in (n + 1) .. 3 :
              ~ (/\ m <= Cardinality(AnnualRows)
                 /\ \A i \in AnnualRows : Recency(i) <= m => IsLossYear(i))

RECURSIVE SumLoss(_)
SumLoss(rows) ==
    IF rows = {} THEN 0
    ELSE LET i == CHOOSE x \in rows : TRUE
         IN  (IF Recency(i) <= LossRunLength THEN -a_data[i].net_profit[1] ELSE 0)
             + SumLoss(rows \ {i})

Flagged(risk) == \E k \in DOMAIN a_out.risks : a_out.risks[k] = risk

\* C17: consecutive_loss is flagged exactly when the run of loss years that
\* starts at the most recent annual report (at most 3 reports, non-annual
\* rows ignored, whatever the order of the rows) has length n >= 2 and its
\* summed loss is strictly above 3e8; one loss year never flags
C17_ConsecutiveLoss ==
    a_out # NoOut =>
        (Flagged("consecutive_loss") <=>
            (LossRunLength >= 2 /\ SumLoss(AnnualRows) > 30))

\* oldest-first rows with an interim report on top: losses of 1.5e8, 1.0e8
\* and 1.0e8 in the three most recent annual reports
C17_Witness ==
    /\ a_out # NoOut
    /\ Flagged("consecutive_loss")
    /\ a_out.loss_years = 3
    /\ a_out.cumulative_loss = 35
    /\ Len(a_data) = 5
    /\ a_data[1].date = 20201231
    /\ a_data[5].date = 20240630

GrowthBoard ==
    \/ SubSeq(a_code, 1, 3) \in {<<"3", "0", "0">>, <<"3", "0", "1">>, <<"6", "8", "8">>}
    \/ a_code[1] \in {"4", "8"}

LatestAnnual == CHOOSE i \in AnnualRows : Recency(i) = 1

InDeepScan == fs_pc \in {"deep_loop", "deep_gather", "deep_delay", "deep_done"}

\* the batches scan_all_stocks goes through
ScanBatches == (Len(fs_stocks) + fs_batch_size - 1) \div fs_batch_size

FailedSymbols == {k \in DOMAIN fs_stocks : fs_stocks[k].cwzb.kind = "raise"}

\* a step of scan_all_stocks can be taken: the loop and the delay always go
\* on; gather has a fetch that will end, a task it can admit, or all results
ScanCanStep ==
    \/ fs_pc \in {"scan_loop", "scan_delay"}
    \/ /\ fs_pc = "scan_gather"
       /\ \/ TasksIn("fetching") # {}
          \/ TasksIn("queued") # {} /\ Cardinality(TasksIn("fetching")) < MAX_CONCURRENT
          \/ \A k \in BatchRange(fs_i, fs_batch_size, Len(fs_stocks)) :
                 fs_task[k] = "finished"

\* C15: whichever symbols' fetches raise, scan_all_stocks is never stopped
\* before it returns (a step of it can always be taken), and the summary it
\* returns has scanned = total_stocks = the number of stocks, errors = the
\* number of failed symbols and flagged <= scanned - errors
C15_FailuresCounted ==
    /\ fs_pc \in {"scan_loop", "scan_gather", "scan_delay"} => ScanCanStep
    /\ fs_pc = "scan_done" =>
            /\ fs_stats[1].total_stocks = Len(fs_stocks)
            /\ fs_stats[1].scanned = fs_stats[1].total_stocks
            /\ fs_stats[1].errors = Cardinality(FailedSymbols)
            /\ fs_stats[1].flagged <= fs_stats[1].scanned - fs_stats[1].errors

\* a scan returned although the first symbol of the first batch failed, and a
\* symbol of the last batch was flagged
C15_Witness ==
    /\ fs_pc = "scan_done"
    /\ 1 \in FailedSymbols
    /\ Len(fs_stocks) = ScanStocks
    /\ fs_stats[1].flagged > 0
    /\ fs_flagged[Len(fs_flagged)].code = fs_stocks[ScanStocks].code

\* the symbols for which a rule of analyze_financials fires in this scan
FlaggedSymbols ==
    {k \in DOMAIN fs_stocks :
        LET res == _scan_one(fs_stocks[k].cwzb, fs_stocks[k].code)
        IN  res[1] = "ok" /\ res[2].risks # << >>}

\* a step of scan_all_stocks that changes financial_risk is the step that ends
\* the scan, taken when every stock has been scanned and nothing was committed
TableChangeIsTheWrite ==
    (fs_pc \in {"idle", "scan_loop", "scan_gather", "scan_delay"} /\ fs_table' # fs_table)
        => /\ fs_pc = "scan_loop" /\ fs_pc' = "scan_done"
           /\ fs_i >= Len(fs_stocks)
           /\ fs_count.scanned = Len(fs_stocks)
           /\ fs_history.commits = 0

\* C16: while scan_all_stocks scans, financial_risk is left as it was; the
\* one transaction that changes it comes after the last batch; and when the
\* scan has returned the table holds one row of this scan for each symbol the
\* scan flagged and nothing else
C16_ReplaceOnScan ==
    /\ [][TableChangeIsTheWrite]_vars
    /\ [](fs_pc = "scan_done" =>
             /\ fs_history.commits = 1
             /\ Len(fs_table) = Cardinality(FlaggedSymbols)
             /\ {fs_table[r].code : r \in DOMAIN fs_table}
                    = {fs_stocks[k].code : k \in FlaggedSymbols}
             /\ \A r \in DOMAIN fs_table : fs_table[r].scan_date = "today")

\* a scan that flagged symbols has replaced the rows of a previous scan
C16_Witness ==
    /\ fs_pc = "scan_done"
    /\ fs_history.deleted > 0
    /\ fs_table # << >>
    /\ fs_stats[1].errors > 0

\* Rule B fired for the symbol of a row in this scan
RuleBFired(code) ==
    \E k \in DOMAIN fs_stocks :
        /\ fs_stocks[k].code = code
        /\ LET res == _scan_one(fs_stocks[k].cwzb, code)
           IN  res[1] = "ok" /\ \E n \in DOMAIN res[2].risks : res[2].risks[n] = "low_revenue"

\* Rule A by the figures stored in the row
RuleAFigures(row) == row.loss_years >= 2 /\ row.cumulative_loss > LOSS_THRESHOLD

BothMeansBoth ==
    \A r \in DOMAIN fs_table :
        fs_table[r].risk_type = "both" =>
            RuleAFigures(fs_table[r]) /\ RuleBFired(fs_table[r].code)

\* C19: after scan_all_stocks and after a subsequent deep_scan_flagged, a row
\* of financial_risk with risk_type "both" belongs to a symbol for which Rule B
\* fired and has at least 2 consecutive loss years with a cumulative loss above
\* LOSS_THRESHOLD
C19_BothOnlyIfBothFired == fs_pc \in {"scan_done", "deep_done"} => BothMeansBoth

\* the same, after scan_all_stocks only
BothAfterScan == fs_pc = "scan_done" => BothMeansBoth

\* a row became "both" in the deep scan
DeepMadeBoth ==
    /\ fs_pc = "deep_done"
    /\ \E r \in DOMAIN fs_table :
           fs_table[r].risk_type = "both" /\ fs_flagged[r].risk_type = "low_revenue"

\* the note confirm puts at the head of the details when it passes a signal
PassedGuard(signal) == signal.details # << >> /\ signal.details[1] = GuardNote

\* the first call leaves the note exactly when its verdict is PASS; a call on
\* an output that carries the note passes again and keeps level, light, action
PassIsKept ==
    /\ g_out = NoSignal /\ g_out' # NoSignal
           => (PassedGuard(g_out') <=> GuardBranch(g_signal, g_snap) = "PASS")
    /\ g_out # NoSignal /\ g_out' # g_out /\ PassedGuard(g_out)
           => /\ GuardBranch(g_out, g_snap) = "PASS"
              /\ g_out'.level = g_out.level
              /\ g_out'.light = g_out.light
              /\ g_out'.action = g_out.action

\* C20: if confirm(signal, snap) results in PASS, confirm applied to its
\* output with the same snapshot results in PASS again, and the level, the
\* light and the action of the second output are those of the first
C20_PassIdempotent == [][PassIsKept]_vars

\* confirm has passed a signal and then passed its own output
C20_Witness ==
    /\ g_out # NoSignal
    /\ Len(g_out.details) >= 2
    /\ g_out.details[1] = GuardNote
    /\ g_out.details[2] = GuardNote
    /\ g_out.action = "PROBE_ENTRY"

\* the signal handed to confirm in a step: the one given at first, then the
\* output of the call before
ConfirmArgument == IF g_out = NoSignal THEN g_signal ELSE g_out

\* a call of confirm: g_signal' is its argument after the call, g_out' what
\* it returned
ConfirmFrame ==
    g_out' # g_out =>
        /\ ConfirmArgument.action # "PROBE_ENTRY"
               => g_out' = ConfirmArgument /\ g_signal' = ConfirmArgument
        /\ GuardBranch(ConfirmArgument, g_snap) = "PASS"
               => /\ g_signal'.details = <<GuardNote>> \o ConfirmArgument.details
                  /\ [g_signal' EXCEPT !.details = ConfirmArgument.details] = ConfirmArgument
        /\ GuardBranch(ConfirmArgument, g_snap) # "PASS"
               => g_signal' = ConfirmArgument

\* C21: confirm returns a signal whose action is not PROBE_ENTRY as it is,
\* whatever the snapshot; and the signal passed to confirm is the same after
\* the call, except that on PASS one confirmation note stands at the head of
\* its details and every other field and detail is as before
C21_ConfirmFrame == [][ConfirmFrame]_vars

\* confirm passed the signal of evaluate: the argument carries one note
C21_Witness ==
    /\ g_out # NoSignal
    /\ g_signal = g_out
    /\ PassedGuard(g_signal)
    /\ Len(g_signal.details) = 4
    /\ g_signal.details[2] # GuardNote

\* the signals evaluate and confirm have produced
ProducedSignals == {g_signal, g_out} \ {NoSignal}

\* C22: every signal produced by evaluate or by confirm whose light is GREEN
\* or GREY has level 0
C22_GreenGreyOnlyLevel0 ==
    \A sig \in ProducedSignals : sig.light \in {"GREEN", "GREY"} => sig.level = 0

\* C22 as the code has it: a GREY signal has level 0 and is INACTIVE; a GREEN
\* signal has level 0, or it is the level-3 PROBE_ENTRY signal of a
\* settlement-week Tuesday (as evaluate gave it, or passed by confirm)
C22_GreenGreyLevels ==
    \A sig \in ProducedSignals :
        /\ sig.light = "GREY" => sig.level = 0 /\ sig.action = "INACTIVE"
        /\ sig.light = "GREEN" =>
              \/ sig.level = 0 /\ sig.action = "NORMAL"
              \/ sig.level = 3 /\ sig.action = "PROBE_ENTRY"

\* confirm passed a GREEN level-3 signal of evaluate
C22_Witness ==
    /\ g_out # NoSignal
    /\ g_out.light = "GREEN"
    /\ g_out.level = 3
    /\ PassedGuard(g_out)
    /\ holidays # {}

\* d is the futures or the options settlement day of its month
IsSettlementDay(d) ==
    \/ d = futures_settlement_day(YearOf(d), MonthOf(d))
    \/ d = options_settlement_day(YearOf(d), MonthOf(d))

\* the Monday after d is the Monday of a settlement week of its month
NextWeekSettles(d) ==
    LET nm == d + 3
    IN  \/ futures_settlement_day(YearOf(nm), MonthOf(nm))
               - Weekday(futures_settlement_day(YearOf(nm), MonthOf(nm))) = nm
        \/ options_settlement_day(YearOf(nm), MonthOf(nm))
               - Weekday(options_settlement_day(YearOf(nm), MonthOf(nm))) = nm

\* evaluate was called on a trading settlement day outside the two windows
SettlementDayEvaluated ==
    /\ call.fn = "evaluate"
    /\ is_trading_day(today)
    /\ ~InMarApr(today) /\ ~InLevel2Dates(today)
    /\ IsSettlementDay(today)

\* C23: for every trading day d outside the level-1 and level-2 windows that
\* is the futures or the options settlement day of its month, evaluate(d)
\* returns level 3, YELLOW, OBSERVE
C23_SettlementDayObserve ==
    SettlementDayEvaluated =>
        call.ret.level = 3 /\ call.ret.light = "YELLOW" /\ call.ret.action = "OBSERVE"

\* C23 with the precedence inside level 3: such a day gets level 3; PRE_RETREAT
\* (YELLOW) if it is a Friday whose next Monday starts a settlement week,
\* else PROBE_ENTRY (GREEN) if it is a Tuesday, else YELLOW, OBSERVE
C23_SettlementDayByPrecedence ==
    SettlementDayEvaluated =>
        /\ call.ret.level = 3
        /\ IF Weekday(today) = 4 /\ NextWeekSettles(today)
           THEN call.ret.light = "YELLOW" /\ call.ret.action = "PRE_RETREAT"
           ELSE IF Weekday(today) = 1
           THEN call.ret.light = "GREEN" /\ call.ret.action = "PROBE_ENTRY"
           ELSE call.ret.light = "YELLOW" /\ call.ret.action = "OBSERVE"

\* a settlement day rolled back to a Monday, evaluated to OBSERVE
C23_Witness ==
    /\ SettlementDayEvaluated
    /\ Weekday(today) = 0
    /\ call.ret.action = "OBSERVE"

\* the futures settlement day 2026-07-17 is the Friday before the options
\* settlement week: evaluated to PRE_RETREAT
SettlementDayPreRetreat ==
    /\ SettlementDayEvaluated
    /\ today = Date(2026, 7, 17)
    /\ holidays = {}
    /\ call.ret.action = "PRE_RETREAT"

\* C24: for every non-trading date (weekend or closure, whichever level
\* matches it) the signal of evaluate has is_trading_day = false and
\* next_open_date = next_trading_day(d) formatted; for every trading date it
\* has is_trading_day = true
C24_TradingDayFields ==
    call.fn = "evaluate" =>
        /\ ~is_trading_day(today) =>
              /\ call.ret.is_trading_day = FALSE
              /\ call.ret.next_open_date # NoStr
              /\ call.ret.next_open_date = Strftime(next_trading_day(today))
        /\ is_trading_day(today) => call.ret.is_trading_day = TRUE

\* the same for the dates no level matches
TradingDayFieldsAtLevel0 ==
    (call.fn = "evaluate" /\ ~InMarApr(today) /\ ~InLevel2Dates(today)) =>
        /\ ~is_trading_day(today) =>
              /\ call.ret.is_trading_day = FALSE
              /\ call.ret.next_open_date = Strftime(next_trading_day(today))
        /\ is_trading_day(today) => call.ret.is_trading_day = TRUE

\* evaluate was called on 2026-05-19 with no closure around it (the calendar
\* of 2026 closes May 1-5 only)
May19Evaluated ==
    call.fn = "evaluate" /\ today = Date(2026, 5, 19) /\ holidays = {}

\* C25: 2026-05-19 is the Tuesday of the futures settlement week of May 2026,
\* and evaluate(2026-05-19) returns level 3, GREEN, PROBE_ENTRY
C25_May19Probe ==
    May19Evaluated =>
        /\ Weekday(today) = 1
        /\ is_futures_settlement_week(today)
        /\ call.ret.level = 3
        /\ call.ret.light = "GREEN"
        /\ call.ret.action = "PROBE_ENTRY"

\* what the code gives: the futures settlement day of May 2026 is Friday the
\* 15th, 2026-05-19 is the Tuesday after its week, and the signal is level 0
May19Normal ==
    May19Evaluated =>
        /\ Weekday(today) = 1
        /\ futures_settlement_day(2026, 5) = Date(2026, 5, 15)
        /\ ~is_futures_settlement_week(today)
        /\ ~is_options_settlement_week(today)
        /\ call.ret.level = 0
        /\ call.ret.light = "GREEN"
        /\ call.ret.action = "NORMAL"

\* the days of the month that fall on the weekday
Occurrences(year, month, weekday) ==
    {o \in Date(year, month, 1) .. Date(year, month, DaysInMonth(year, month)) :
        Weekday(o) = weekday}

\* C26: _nth_weekday_of_month returns the n-th occurrence of the weekday
\* inside the given month and year when there is one, and raises for every n
\* for which there is none
C26_NthWeekday ==
    call.fn = "_nth_weekday_of_month" =>
        LET occ == Occurrences(call.arg[1], call.arg[2], call.arg[3])
            nth == call.arg[4]
        IN  IF nth \in 1 .. Cardinality(occ)
            THEN /\ call.ret.ok
                 /\ call.ret.date \in occ
                 /\ Cardinality({o \in occ : o <= call.ret.date}) = nth
            ELSE ~call.ret.ok

\* the same for nth from 0 to 52, where a missing occurrence falls in another
\* month
NthWeekdayWithinAYear ==
    (call.fn = "_nth_weekday_of_month" /\ call.arg[4] \in 0 .. 52) =>
        LET occ == Occurrences(call.arg[1], call.arg[2], call.arg[3])
            nth == call.arg[4]
        IN  IF nth \in 1 .. Cardinality(occ)
            THEN /\ call.ret.ok
                 /\ call.ret.date \in occ
                 /\ Cardinality({o \in occ : o <= call.ret.date}) = nth
            ELSE ~call.ret.ok

\* a date of the same month of another year was returned
NthInAnotherYear ==
    /\ call.fn = "_nth_weekday_of_month"
    /\ call.ret.ok
    /\ YearOf(call.ret.date) # call.arg[1]

\* a bare code (no ".", no SH/SZ/BJ in front) whose first digit maps to no
\* exchange
BareUnknownCode(code) ==
    /\ code # << >>
    /\ "." \notin {code[k] : k \in DOMAIN code}
    /\ ~StartsWith(code, <<"S", "H">>) /\ ~StartsWith(code, <<"S", "Z">>)
    /\ ~StartsWith(code, <<"B", "J">>)
    /\ code[1] \notin {"0", "1", "2", "3", "4", "5", "6", "8", "9"}

TakesKind(g) ==
    g \in {"get_pool", "get_company_info", "get_finance_report", "get_technical_indicator"}

ValidationFailure ==
    /\ s_attempts = 0
    /\ s_trace = << >>
    /\ s_pc = "ended" => s_result = <<"raised", "ValueError">>
    /\ s_pc \in {"idle", "ended"}

\* C27: a call with an unknown pool, company-info, report or indicator kind,
\* or with a bare code whose prefix maps to no exchange, ends with a
\* validation error, with no limiter acquisition, cache access or network
\* attempt before it, and is not retried
C27_ValidationFirst ==
    (\/ TakesKind(s_getter) /\ ~s_valid
     \/ BareUnknownCode(s_code)) => ValidationFailure

\* the same for an unknown kind, and for a bare unknown code in the getters
\* that normalise their code
ValidationWhereChecked ==
    (\/ TakesKind(s_getter) /\ ~s_valid
     \/ BareUnknownCode(s_code) /\ s_getter # "get_company_info") => ValidationFailure

\* the HTTP requests sent in the window that starts at t
SentInWindow(t) ==
    {i \in 1 .. Len(q_sent) : t <= q_sent[i] /\ q_sent[i] < t + rl_window}

\* the request at position i of a caller's trace comes right after that pass's
\* own acquisitions
OwnAcquire(c, i) ==
    /\ i > 1
    /\ q_trace[c][i - 1] = "general_limiter.acquire"
    /\ q_realall[c] => i > 2 /\ q_trace[c][i - 2] = "realall_limiter.acquire"

\* C28: every pass through _request, retries included, acquires the general
\* limiter (and before it the realtime-all limiter when asked to) before it
\* sends, so no window holds more than max_requests HTTP requests
C28_RetriesAcquire ==
    /\ \A c \in Callers : \A i \in 1 .. Len(q_trace[c]) :
           q_trace[c][i] = "client.get" => OwnAcquire(c, i)
    /\ Len(q_sent) <= Len(completions)
    /\ \A i \in 1 .. Len(q_sent) : q_sent[i] = completions[i]
    /\ \A c \in Callers : q_realall[c] =>
           AttemptNumber(c) <= Len(sc_completions)
    /\ \A t \in 0 .. now : Cardinality(SentInWindow(t)) <= rl_max

\* a caller sent a request, got a transport error, and sent its retry only
\* after the limiter made it wait for the window
C28_Witness ==
    \E c \in Callers :
        /\ AttemptNumber(c) >= 2
        /\ Len(q_sent) > rl_max
        /\ \E i \in 1 .. Len(q_sent) - rl_max : q_sent[i + rl_max] = q_sent[i] + rl_window
        /\ q_pc[c] \in {"returned", "raised", "backoff"}

\* the risk types that include low revenue
IncludesLowRevenue(risk_type) == risk_type \in {"low_revenue", "both"}

\* C29: deep_scan_flagged never removes a low-revenue classification: a row that
\* was "low_revenue" or "both" when the deep scan began is one of the two in
\* every state of the deep scan and after it
C29_LowRevenueKept ==
    fs_pc \in {"deep_loop", "deep_gather", "deep_delay", "deep_done"} =>
        \A r \in DOMAIN fs_table :
            IncludesLowRevenue(fs_flagged[r].risk_type) =>
                IncludesLowRevenue(fs_table[r].risk_type)

\* the deep scan keeps the classification of the rows that were "low_revenue"
LowRevenueOnlyKept ==
    fs_pc \in {"deep_loop", "deep_gather", "deep_delay", "deep_done"} =>
        \A r \in DOMAIN fs_table :
            fs_flagged[r].risk_type = "low_revenue" =>
                IncludesLowRevenue(fs_table[r].risk_type)

\* a row stored as "both" is "consecutive_loss" after the deep scan
DeepDroppedLowRevenue ==
    /\ fs_pc = "deep_done"
    /\ \E r \in DOMAIN fs_table :
           fs_flagged[r].risk_type = "both" /\ fs_table[r].risk_type = "consecutive_loss"

\* evaluate has been applied to the pre-retreat day of the settlement week of
\* `today`
PreRetreatDayEvaluated == call.fn = "evaluate"

\* C30: for every futures or options settlement week, if the pre-retreat day p
\* that settlement_week_info reports for the days of the week lies outside the
\* level-1 and level-2 windows, evaluate(p) is level 3, YELLOW, PRE_RETREAT
C30_PreRetreatDay ==
    (/\ PreRetreatDayEvaluated
     /\ ~InMarApr(call.arg[1])
     /\ ~InLevel2Dates(call.arg[1])) =>
        /\ call.ret.level = 3
        /\ call.ret.light = "YELLOW"
        /\ call.ret.action = "PRE_RETREAT"

\* the same, for the weeks whose preceding Friday is a trading day
PreRetreatOnOpenFriday ==
    (/\ PreRetreatDayEvaluated
     /\ call.arg[1] = _week_range(today)[1] - 3
     /\ ~InMarApr(call.arg[1])
     /\ ~InLevel2Dates(call.arg[1])) =>
        /\ call.ret.level = 3
        /\ call.ret.light = "YELLOW"
        /\ call.ret.action = "PRE_RETREAT"

\* the Friday before the settlement week is closed, and the day reported as
\* the pre-retreat day gets no PRE_RETREAT signal
PreRetreatDayMissed ==
    /\ PreRetreatDayEvaluated
    /\ call.arg[1] < _week_range(today)[1] - 3
    /\ ~InMarApr(call.arg[1])
    /\ ~InLevel2Dates(call.arg[1])
    /\ call.ret.action # "PRE_RETREAT"

====
